---- MODULE Spec2Model ----
(***************************************************************************)
(* Model of the fintrack "bend" client: session validity and persistence,  *)
(* the refresh-token and OTP login flows, the login / check / accounts /   *)
(* transactions commands, and cursor pagination of the transaction         *)
(* fetcher.                                                                *)
(*                                                                         *)
(* Time is counted in minutes.  Tokens are opaque values: RT(n) is the     *)
(* n-th refresh token the server issued, AT(n) the n-th access token, and  *)
(* Empty is the empty string.                                              *)
(***************************************************************************)
EXTENDS Integers, Sequences, FiniteSets, TLC

VARIABLES
    now,          \* wall clock (minutes)
    sessionFile,  \* the session file: NoFile, Corrupt, or a Session record
    cfgFile,      \* the configuration file: [RefreshToken, DeviceHash]
    cfg,          \* the configuration value of the running command
    srv,          \* the remote service: [refresh, issued]
    cmd,          \* the command being run, or "none"
    pc,           \* position of the running command
    ret,          \* call site to which check's helper functions return
    client,       \* the Client the command is operating: [deviceHash]
    session,      \* the Session the client points to, or Nil
    info,         \* the command's sessionInfo local
    otp,          \* locals of runOTPLogin
    result,       \* outcome of the last finished command
    wire,         \* the HTTP request sent by the latest step, or NoReq
    reply,        \* the response to it as the client received it, or NoResp
    hist,         \* bookkeeping about the run: latest refresh and its save
    valid,        \* result of the latest IsSessionValid call
    fa,           \* locals of FetchAllTransactions
    pages,        \* the page requests FetchAllTransactions has made so far
    ledger,       \* the transactions the remote service holds
    tickers,      \* number of running rate-limiter tickers in the command's process
    limiter,      \* one client's rate limiter, its callers and its requests
    call,         \* the latest operation called on the client, with what it returned
    report,       \* the latest response handed to doRequest, with the error it made
    disk,         \* the bytes of the session file as the file system holds them
    procs,        \* the processes that share the session file, each with its position
    device        \* the device_hash file, and the identifiers handed to callers

vars == <<now, sessionFile, cfgFile, cfg, srv, cmd, pc, ret, client, session,
          info, otp, result, wire, reply, hist, valid, fa, pages, ledger,
          tickers, limiter, call, report, disk, procs, device>>

cmdVars == <<sessionFile, cfgFile, cfg, srv, cmd, pc, ret, client, info, otp,
             result, wire, reply, hist, tickers>>

fetchVars == <<fa, pages, ledger>>

limVars == <<limiter>>

opVars == <<call, report>>

storeVars == <<disk, procs, device>>

----------------------------------------------------------------------------
(* Bounds of the model *)

MaxTime == 2

MaxIssued == 3

MaxExpiry == 9

MaxClock == 4

MaxTotal == 2

MaxLimit == 2

MaxPages == 4

RateLimit == 2

MaxElapsed == 5

(* Program constants *)

Buffer == 5

BasicPageSize == 50

TextLimit == 200

ScanLimit == 1000

TenthDivisor == 10

----------------------------------------------------------------------------
(* Values *)

Empty == <<>>

RT(n) == <<"rt", n>>

AT(n) == <<"at", n>>

Nil == [isNil |-> TRUE]

NoFile == [absent |-> TRUE]

Corrupt == [corrupt |-> TRUE]

ZeroTime == 0

TokenTypes == {"Bearer", "MAC"}

Cookies == {"c1"}

NoCookie == ""

----------------------------------------------------------------------------
(* Session store *)

IsSessionValid_strict(s, t) ==
    IF s = Nil THEN FALSE
    ELSE IF s.AccessToken = Empty THEN FALSE
    ELSE IF t + Buffer >= s.ExpiresAt THEN FALSE
    ELSE TRUE

IsSessionValid(s, t) ==
    IF s = Nil THEN FALSE
    ELSE IF s.AccessToken = Empty THEN FALSE
    ELSE IF t + Buffer > s.ExpiresAt THEN FALSE
    ELSE TRUE

InitializeSession(refreshToken, deviceHash) ==
    [AccessToken  |-> Empty,
     RefreshToken |-> refreshToken,
     ExpiresAt    |-> ZeroTime,
     TokenType    |-> "Bearer",
     MarbleCookie |-> NoCookie,
     DeviceHash   |-> deviceHash]

SessionInfo(exists, isValid, hasRefresh) ==
    [Exists |-> exists, Valid |-> isValid, HasRefreshToken |-> hasRefresh]

LoadSession(file) ==
    IF file = NoFile \/ file = Corrupt
    THEN [err |-> TRUE, session |-> Nil]
    ELSE [err |-> FALSE, session |-> file]

GetSessionInfo(file, t) ==
    IF LoadSession(file).err
    THEN SessionInfo(FALSE, FALSE, FALSE)
    ELSE SessionInfo(TRUE, IsSessionValid(file, t), file.RefreshToken # Empty)

(* SaveSession either writes the whole record, or fails: before the file   *)
(* is opened (file untouched) or after os.WriteFile truncated it.          *)
SaveOutcomes == {"ok", "untouched", "truncated"}

SaveSession(file, s, outcome) ==
    CASE outcome = "ok"        -> [err |-> FALSE, file |-> s]
      [] outcome = "untouched" -> [err |-> TRUE,  file |-> file]
      [] outcome = "truncated" -> [err |-> TRUE,  file |-> Corrupt]

----------------------------------------------------------------------------
(* Transport *)

NoReq == [kind |-> "none"]

NoResp == [kind |-> "none", cookies |-> <<>>]

CookieHeaders == {<<>>} \cup { <<c>> : c \in Cookies }

Responses ==
    {[kind |-> "transport", cookies |-> <<>>]} \cup
    { [kind |-> k, cookies |-> c] :
        k \in {"non2xx", "undecodable", "enverror", "ok"}, c \in CookieHeaders }

Is2xx(resp) == resp.kind \notin {"transport", "non2xx"}

setAuthenticationHeaders_noDefaultScheme(s) ==
    IF s = Nil THEN [auth |-> Empty, cookie |-> NoCookie]
    ELSE [auth   |-> IF s.AccessToken = Empty THEN Empty
                     ELSE <<s.TokenType, s.AccessToken>>,
          cookie |-> s.MarbleCookie]

setAuthenticationHeaders(s) ==
    IF s = Nil THEN [auth |-> Empty, cookie |-> NoCookie]
    ELSE [auth   |-> IF s.AccessToken = Empty THEN Empty
                     ELSE IF s.TokenType = "" THEN <<"Bearer", s.AccessToken>>
                     ELSE <<s.TokenType, s.AccessToken>>,
          cookie |-> s.MarbleCookie]

newRequest(c, s, kind, body) ==
    [kind   |-> kind,
     device |-> c.deviceHash,
     auth   |-> setAuthenticationHeaders(s).auth,
     cookie |-> setAuthenticationHeaders(s).cookie,
     body   |-> body]

saveResponseCookies(s, resp) ==
    IF s = Nil \/ Len(resp.cookies) = 0 THEN s
    ELSE [s EXCEPT !.MarbleCookie = Head(resp.cookies)]

doRequest_decodesFirst(s, resp) ==
    IF resp.kind = "transport" THEN [err |-> TRUE, session |-> s]
    ELSE IF ~Is2xx(resp) THEN [err |-> TRUE, session |-> s]
    ELSE IF resp.kind = "undecodable" THEN [err |-> TRUE, session |-> s]
    ELSE [err |-> FALSE, session |-> saveResponseCookies(s, resp)]

doRequest_savesCookiesOnError(s, resp) ==
    IF resp.kind = "transport" THEN [err |-> TRUE, session |-> s]
    ELSE [err     |-> ~Is2xx(resp) \/ resp.kind = "undecodable",
          session |-> saveResponseCookies(s, resp)]

doRequest(s, resp) ==
    IF resp.kind = "transport" THEN [err |-> TRUE, session |-> s]
    ELSE IF ~Is2xx(resp) THEN [err |-> TRUE, session |-> s]
    ELSE [err     |-> resp.kind = "undecodable",
          session |-> saveResponseCookies(s, resp)]

CheckSession(c, s, t, resp) ==
    IF s = Nil THEN [err |-> TRUE, session |-> s, req |-> NoReq]
    ELSE IF t > s.ExpiresAt THEN [err |-> TRUE, session |-> s, req |-> NoReq]
    ELSE [err     |-> doRequest(s, resp).err \/ resp.kind = "enverror",
          session |-> doRequest(s, resp).session,
          req     |-> newRequest(c, s, "check", Empty)]

GetUserID(c, s, t, resp) == CheckSession(c, s, t, resp)

(* A page of the transactions endpoint, and the cursor that marks a        *)
(* position in the service's list of transactions.                         *)
NoPage == [Transactions |-> <<>>, Counts |-> <<>>, Total |-> 0, After |-> Empty]

Cursor(n) == IF n = 0 THEN Empty ELSE <<"cur", n>>

Position(after) == IF after = Empty THEN 0 ELSE after[2]

(* The zero value of TransactionFilters *)
NoFilters ==
    [Limit |-> 0, After |-> Empty, CountBy |-> "", TimeFilter |-> "",
     Include |-> "", SortBy |-> "", SortOrder |-> "",
     StartDate |-> ZeroTime, EndDate |-> ZeroTime,
     AccountID |-> "", CategoryID |-> "", SubcategoryID |-> "",
     IncludeCountBy |-> FALSE, IncludeDetailed |-> FALSE, OrCategory |-> FALSE]

TransactionFilters(limit, after) ==
    [NoFilters EXCEPT !.Limit = limit, !.After = after]

QueryKeys == {"limit", "after", "count_by", "time_filter", "include[]",
              "sort_by", "sort_order", "start_date", "end_date",
              "category_id", "account_id[]", "subcategory_id", "or[]"}

(* time.Time.Format(time.RFC3339) *)
FormatRFC3339(t) == <<"rfc3339", t>>

(* params.Set and params.Add of a key that is set at most once. *)
SetIf(present, value) == IF present THEN <<value>> ELSE <<>>

(* url.Values: the values of every key, in the order they were added; a    *)
(* key with no value is not in the query.                                  *)
buildTransactionQueryParams_sendsZeroLimit(filters) ==
    [k \in QueryKeys |->
       CASE k = "limit"          -> SetIf(filters.Limit >= 0, filters.Limit)
         [] k = "after"          -> SetIf(filters.After # Empty, filters.After)
         [] k = "count_by"       -> SetIf(filters.CountBy # "", filters.CountBy)
         [] k = "time_filter"    -> SetIf(filters.TimeFilter # "", filters.TimeFilter)
         [] k = "include[]"      ->
              SetIf(filters.Include # "", filters.Include)
              \o SetIf(filters.IncludeCountBy, "count_by_totals")
              \o SetIf(filters.IncludeDetailed, "detailed_search_summary")
         [] k = "sort_by"        -> SetIf(filters.SortBy # "", filters.SortBy)
         [] k = "sort_order"     -> SetIf(filters.SortOrder # "", filters.SortOrder)
         [] k = "start_date"     -> SetIf(filters.StartDate # ZeroTime,
                                          FormatRFC3339(filters.StartDate))
         [] k = "end_date"       -> SetIf(filters.EndDate # ZeroTime,
                                          FormatRFC3339(filters.EndDate))
         [] k = "category_id"    -> SetIf(filters.CategoryID # "", filters.CategoryID)
         [] k = "account_id[]"   -> SetIf(filters.AccountID # "", filters.AccountID)
         [] k = "subcategory_id" -> SetIf(filters.SubcategoryID # "",
                                          filters.SubcategoryID)
         [] k = "or[]"           -> IF filters.OrCategory
                                    THEN <<"subcategory_id", "category_id">>
                                    ELSE <<>>]

buildTransactionQueryParams(filters) ==
    [k \in QueryKeys |->
       CASE k = "limit"          -> SetIf(filters.Limit > 0, filters.Limit)
         [] k = "after"          -> SetIf(filters.After # Empty, filters.After)
         [] k = "count_by"       -> SetIf(filters.CountBy # "", filters.CountBy)
         [] k = "time_filter"    -> SetIf(filters.TimeFilter # "", filters.TimeFilter)
         [] k = "include[]"      ->
              SetIf(filters.Include # "", filters.Include)
              \o SetIf(filters.IncludeCountBy, "count_by_totals")
              \o SetIf(filters.IncludeDetailed, "detailed_search_summary")
         [] k = "sort_by"        -> SetIf(filters.SortBy # "", filters.SortBy)
         [] k = "sort_order"     -> SetIf(filters.SortOrder # "", filters.SortOrder)
         [] k = "start_date"     -> SetIf(filters.StartDate # ZeroTime,
                                          FormatRFC3339(filters.StartDate))
         [] k = "end_date"       -> SetIf(filters.EndDate # ZeroTime,
                                          FormatRFC3339(filters.EndDate))
         [] k = "category_id"    -> SetIf(filters.CategoryID # "", filters.CategoryID)
         [] k = "account_id[]"   -> SetIf(filters.AccountID # "", filters.AccountID)
         [] k = "subcategory_id" -> SetIf(filters.SubcategoryID # "",
                                          filters.SubcategoryID)
         [] k = "or[]"           -> IF filters.OrCategory
                                    THEN <<"subcategory_id", "category_id">>
                                    ELSE <<>>]

(* The limit and the cursor a query asks for: 0 and Empty when the         *)
(* parameter is not in the query.                                          *)
QueryLimit(query) == IF query["limit"] = <<>> THEN 0 ELSE query["limit"][1]

QueryAfter(query) == IF query["after"] = <<>> THEN Empty ELSE query["after"][1]

(* endpoint += "?" + params.Encode() only if len(params) > 0 *)
HasQueryString(query) == \E k \in QueryKeys : query[k] # <<>>

(* Responses of the transactions endpoint: a failure of any kind, or a 2xx *)
(* carrying one of the pages the service may serve.                        *)
TransactionResponses(served) ==
    { [kind |-> r.kind, cookies |-> r.cookies, data |-> NoPage] :
        r \in {x \in Responses : x.kind # "ok"} }
    \cup { [kind |-> "ok", cookies |-> c, data |-> d] :
             c \in CookieHeaders, d \in served }

FetchTransactionsWithFilters(c, s, filters, resp) ==
    IF s = Nil
    THEN [err |-> TRUE, session |-> s, req |-> NoReq, data |-> NoPage]
    ELSE [err     |-> doRequest(s, resp).err \/ resp.kind = "enverror",
          session |-> doRequest(s, resp).session,
          req     |-> newRequest(c, s, "transactions",
                                 buildTransactionQueryParams(filters)),
          data    |-> IF doRequest(s, resp).err \/ resp.kind = "enverror"
                      THEN NoPage ELSE resp.data]

FetchTransactions_dropsCursor(c, s, limit, after, resp) ==
    FetchTransactionsWithFilters(c, s, TransactionFilters(limit, Empty), resp)

FetchTransactions(c, s, limit, after, resp) ==
    FetchTransactionsWithFilters(c, s, TransactionFilters(limit, after), resp)

GetAccounts(c, s, resp) ==
    IF s = Nil THEN [err |-> TRUE, session |-> s, req |-> NoReq]
    ELSE [err     |-> doRequest(s, resp).err \/ resp.kind = "enverror",
          session |-> doRequest(s, resp).session,
          req     |-> newRequest(c, s, "accounts", Empty)]

(* Refresh responses: a failure of any kind, a 2xx whose expires_at does   *)
(* not parse, or a 2xx carrying a token pair.                              *)
NoData == [AccessToken |-> Empty, RefreshToken |-> Empty,
           TokenType |-> "", ExpiresAt |-> ZeroTime]

RefreshFailures ==
    { [kind |-> r.kind, cookies |-> r.cookies, data |-> NoData] :
        r \in {x \in Responses : x.kind # "ok"} }
    \cup { [kind |-> "badexpiry", cookies |-> c, data |-> NoData] :
             c \in CookieHeaders }

RefreshSession_ignoresEnvelopeError(c, s, resp) ==
    IF s = Nil \/ s.RefreshToken = Empty
    THEN [err |-> TRUE, session |-> s, req |-> NoReq]
    ELSE IF doRequest(s, resp).err \/ resp.kind = "badexpiry"
    THEN [err     |-> TRUE,
          session |-> doRequest(s, resp).session,
          req     |-> newRequest(c, s, "refresh", s.RefreshToken)]
    ELSE [err     |-> FALSE,
          session |-> [doRequest(s, resp).session EXCEPT
                          !.AccessToken  = resp.data.AccessToken,
                          !.RefreshToken = resp.data.RefreshToken,
                          !.TokenType    = resp.data.TokenType,
                          !.ExpiresAt    = resp.data.ExpiresAt],
          req     |-> newRequest(c, s, "refresh", s.RefreshToken)]

RefreshSession_keepsTokenType(c, s, resp) ==
    IF s = Nil \/ s.RefreshToken = Empty
    THEN [err |-> TRUE, session |-> s, req |-> NoReq]
    ELSE IF doRequest(s, resp).err \/ resp.kind = "enverror"
              \/ resp.kind = "badexpiry"
    THEN [err     |-> TRUE,
          session |-> doRequest(s, resp).session,
          req     |-> newRequest(c, s, "refresh", s.RefreshToken)]
    ELSE [err     |-> FALSE,
          session |-> [doRequest(s, resp).session EXCEPT
                          !.AccessToken  = resp.data.AccessToken,
                          !.RefreshToken = resp.data.RefreshToken,
                          !.ExpiresAt    = resp.data.ExpiresAt],
          req     |-> newRequest(c, s, "refresh", s.RefreshToken)]

RefreshSession_assignsBeforeParse(c, s, resp) ==
    IF s = Nil \/ s.RefreshToken = Empty
    THEN [err |-> TRUE, session |-> s, req |-> NoReq]
    ELSE IF doRequest(s, resp).err \/ resp.kind = "enverror"
    THEN [err     |-> TRUE,
          session |-> doRequest(s, resp).session,
          req     |-> newRequest(c, s, "refresh", s.RefreshToken)]
    ELSE [err     |-> resp.kind = "badexpiry",
          session |-> [doRequest(s, resp).session EXCEPT
                          !.AccessToken  = resp.data.AccessToken,
                          !.RefreshToken = resp.data.RefreshToken,
                          !.TokenType    = resp.data.TokenType,
                          !.ExpiresAt    = IF resp.kind = "badexpiry" THEN @
                                           ELSE resp.data.ExpiresAt],
          req     |-> newRequest(c, s, "refresh", s.RefreshToken)]

RefreshSession(c, s, resp) ==
    IF s = Nil \/ s.RefreshToken = Empty
    THEN [err |-> TRUE, session |-> s, req |-> NoReq]
    ELSE IF doRequest(s, resp).err \/ resp.kind = "enverror"
              \/ resp.kind = "badexpiry"
    THEN [err     |-> TRUE,
          session |-> doRequest(s, resp).session,
          req     |-> newRequest(c, s, "refresh", s.RefreshToken)]
    ELSE [err     |-> FALSE,
          session |-> [doRequest(s, resp).session EXCEPT
                          !.AccessToken  = resp.data.AccessToken,
                          !.RefreshToken = resp.data.RefreshToken,
                          !.TokenType    = resp.data.TokenType,
                          !.ExpiresAt    = resp.data.ExpiresAt],
          req     |-> newRequest(c, s, "refresh", s.RefreshToken)]

NewClient(config) == [deviceHash |-> config.DeviceHash]

(* InitializeFromRefreshToken on a client that holds the session prev:     *)
(* SetSession puts the fresh record in its place, RefreshSession then      *)
(* works on that record.                                                   *)
InitializeFromRefreshToken_restoresOnFailure(c, prev, refreshToken, resp) ==
    LET res == RefreshSession(c, InitializeSession(refreshToken, c.deviceHash),
                              resp)
    IN  IF res.err THEN [res EXCEPT !.session = prev] ELSE res

InitializeFromRefreshToken(c, prev, refreshToken, resp) ==
    RefreshSession(c, InitializeSession(refreshToken, c.deviceHash), resp)

(* NewClient starts a ticker with time.NewTicker; Close stops the ticker   *)
(* of the client it is called on.  Both act on the number of tickers that  *)
(* are running in the process.                                             *)
NewTicker(running) == running + 1

Close(running) == IF running > 0 THEN running - 1 ELSE running

----------------------------------------------------------------------------
(* The remote service.  It rotates the refresh token on every successful   *)
(* refresh: the token presented must be the one issued last, and the       *)
(* response carries its successor.                                         *)

Lifetimes == {0, Buffer, Buffer + 1}

Issue(n, tokenType, expiresAt) ==
    [AccessToken |-> AT(n), RefreshToken |-> RT(n),
     TokenType |-> tokenType, ExpiresAt |-> expiresAt]

ServerRefresh(s) ==
    RefreshFailures \cup
    IF s # Nil /\ s.RefreshToken = srv.refresh /\ srv.issued < MaxIssued
    THEN { [kind |-> "ok", cookies |-> c,
            data |-> Issue(srv.issued + 1, tt, now + d)] :
             c \in CookieHeaders, tt \in TokenTypes, d \in Lifetimes }
    ELSE {}

ServerAfter(req, resp) ==
    IF req.kind = "refresh" /\ resp.kind = "ok"
    THEN [refresh |-> resp.data.RefreshToken, issued |-> srv.issued + 1]
    ELSE srv

----------------------------------------------------------------------------
(* Control flow of a command run *)

Frame == UNCHANGED <<now, valid, fa, pages, ledger, limiter, call, report,
                    disk, procs, device>>

NoInfo == SessionInfo(FALSE, FALSE, FALSE)

(* otp.sent: the device identity and request identifier that went out     *)
(* with the flow's RequestOTP call.                                        *)
NoOTP == [requestID |-> "", deviceHash |-> "", original |-> "", token |-> Empty,
          sent |-> [device |-> "", requestID |-> ""]]

(* hist.refreshed: the token data of the run's latest successful refresh;  *)
(* hist.persist: whether it is still to be saved ("pending"), was saved    *)
(* ("clean") or its save failed ("failed"); hist.current: the refresh      *)
(* token the server held valid when the latest refresh request arrived.    *)
(* hist.err: the run's latest RefreshSession call returned an error.       *)
NoHist == [refreshed |-> NoData, persist |-> "clean", current |-> Empty,
           err |-> FALSE]

NoExchange == wire' = NoReq /\ reply' = NoResp

Exchange(req, resp) ==
    /\ wire' = req
    /\ reply' = IF req = NoReq THEN NoResp
                ELSE [kind |-> resp.kind, cookies |-> resp.cookies]

(* The state before any command has run: no session file, the             *)
(* installation's device identity, and a configuration with or without the *)
(* refresh token that the service holds valid.                             *)
IdleCmd(configured) ==
    /\ sessionFile = NoFile
    /\ cfgFile \in { [RefreshToken |-> t, DeviceHash |-> "d1"] : t \in configured }
    /\ cfg = cfgFile
    /\ srv = [refresh |-> RT(1), issued |-> 1]
    /\ cmd = "none"
    /\ pc = "idle"
    /\ ret = "none"
    /\ client = [deviceHash |-> "d1"]
    /\ info = NoInfo
    /\ otp = NoOTP
    /\ result = "none"
    /\ wire = NoReq
    /\ reply = NoResp
    /\ hist = NoHist
    /\ tickers = 0

NoLimiter == [running |-> FALSE]

NoCall == [op |-> "none"]

NoReport == [called |-> FALSE]

NoProcs == <<>>

NoDisk == [exists |-> FALSE, bytes |-> <<>>]

EmptyString == [kind |-> "none", n |-> 0]

NoHashFile == [exists |-> FALSE, data |-> EmptyString]

NoDevice == [file |-> NoHashFile, made |-> 0, calls |-> <<>>]

NoFetch == [pc |-> "idle", limit |-> 0, after |-> Empty,
            allTransactions |-> <<>>, allCounts |-> <<>>, err |-> FALSE]

IdleFetch ==
    /\ fa = NoFetch
    /\ pages = <<>>
    /\ ledger = [faithful |-> TRUE, total |-> 0]

IdleLimiter ==
    /\ limiter = NoLimiter
    /\ call = NoCall
    /\ report = NoReport
    /\ disk = NoDisk
    /\ procs = NoProcs
    /\ device = NoDevice

(* Where check's refreshSession and authenticateFromConfig return to.      *)
(* A1: runCheck, no session file;  A2: runCheck, session invalid;          *)
(* A4: runCheck, API test failed;  Ra: refresh of an invalid session;      *)
(* Rb: refresh after a failed API test.                                    *)
ReturnPc(site, ok) ==
    CASE site = "A1" -> IF ok THEN "ck_valid" ELSE "exit_err"
      [] site = "A2" -> IF ok THEN "ck_test" ELSE "exit_err"
      [] site = "A4" -> IF ok THEN "exit_ok" ELSE "exit_err"
      [] site = "Ra" -> IF ok THEN "ck_test" ELSE "ac_begin"
      [] site = "Rb" -> IF ok THEN "exit_ok" ELSE "ac_begin"

ReturnSite(site, ok) ==
    CASE site = "Ra" /\ ~ok -> "A2"
      [] site = "Rb" /\ ~ok -> "A4"
      [] OTHER -> "none"

Goto(target) ==
    LET t == CASE target = "return_ok"  -> ReturnPc(ret, TRUE)
               [] target = "return_err" -> ReturnPc(ret, FALSE)
               [] OTHER -> target
    IN  /\ pc' = IF t \in {"exit_ok", "exit_err"} THEN "idle" ELSE t
        /\ result' = CASE t = "exit_ok"  -> "ok"
                       [] t = "exit_err" -> "err"
                       [] OTHER -> result
        /\ ret' = CASE target = "return_ok"  -> ReturnSite(ret, TRUE)
                    [] target = "return_err" -> ReturnSite(ret, FALSE)
                    [] OTHER -> ret
        /\ info' = IF target = "return_ok" /\ ret \in {"A1", "A2", "Ra"}
                   THEN GetSessionInfo(sessionFile, now)
                   ELSE info

(* One call of client.RefreshSession by a command *)
RefreshStep(here, onOk, onErr) ==
    /\ pc = here
    /\ \E resp \in ServerRefresh(session) :
         LET r == RefreshSession(client, session, resp) IN
         /\ session' = r.session
         /\ Exchange(r.req, resp)
         /\ srv' = ServerAfter(r.req, resp)
         /\ hist' = IF r.req = NoReq THEN [hist EXCEPT !.err = TRUE]
                    ELSE IF r.err
                    THEN [hist EXCEPT !.err = TRUE, !.current = srv.refresh]
                    ELSE [refreshed |-> resp.data, persist |-> "pending",
                          current |-> srv.refresh, err |-> FALSE]
         /\ Goto(IF r.err THEN onErr ELSE onOk)
    /\ UNCHANGED <<sessionFile, cfgFile, cfg, cmd, client, otp>>
    /\ Frame
    /\ UNCHANGED tickers

(* One call of sessionManager.SaveSession(client.GetSession()) *)
SaveStep(here, onOk, onErr) ==
    /\ pc = here
    /\ \E outcome \in SaveOutcomes :
         LET sv == SaveSession(sessionFile, session, outcome) IN
         /\ sessionFile' = sv.file
         /\ hist' = [hist EXCEPT !.persist = IF sv.err THEN "failed" ELSE "clean"]
         /\ Goto(IF sv.err THEN onErr ELSE onOk)
    /\ NoExchange
    /\ UNCHANGED <<cfgFile, cfg, srv, cmd, client, session, otp>>
    /\ Frame
    /\ UNCHANGED tickers

(* One call of client.CheckSession by a command *)
CheckStep(here, onOk, onErr) ==
    /\ pc = here
    /\ \E resp \in Responses :
         LET r == CheckSession(client, session, now, resp) IN
         /\ session' = r.session
         /\ Exchange(r.req, resp)
         /\ Goto(IF r.err THEN onErr ELSE onOk)
    /\ UNCHANGED <<sessionFile, cfgFile, cfg, srv, cmd, client, otp, hist>>
    /\ Frame
    /\ UNCHANGED tickers

----------------------------------------------------------------------------
(* bend login *)

RequestIDs == {"q1", "q2"}

TransientHashes == {"t1", "t2"}

SetDeviceHash(c, deviceHash) == [c EXCEPT !.deviceHash = deviceHash]

GetDeviceHash(c) == c.deviceHash

(* OTP endpoints: the request carries the client's device headers and the  *)
(* request identifier passed by the caller.                                *)
RequestOTP(c, requestID, resp) ==
    [err |-> resp.kind # "ok",
     req |-> newRequest(c, Nil, "otp_request", requestID)]

VerifyOTP(c, requestID, resp) ==
    [err |-> resp.kind # "ok",
     req |-> newRequest(c, Nil, "otp_verify", requestID)]

runLogin ==
    /\ pc = "idle"
    /\ cmd' = "login"
    /\ cfg' = cfgFile
    /\ client' = NewClient(cfgFile)
    /\ info' = GetSessionInfo(sessionFile, now)
    /\ IF info'.Exists /\ info'.Valid
       THEN /\ session' = LoadSession(sessionFile).session
            /\ pc' = "login_check"
       ELSE /\ session' = Nil
            /\ pc' = "login_auth"
    /\ result' = "none"
    /\ ret' = "none"
    /\ otp' = NoOTP
    /\ hist' = NoHist
    /\ NoExchange
    /\ UNCHANGED <<sessionFile, cfgFile, srv>>
    /\ Frame
    /\ tickers' = NewTicker(0)

loginCheckSession == CheckStep("login_check", "exit_ok", "login_auth")

loginNoRefreshToken ==
    /\ pc = "login_auth"
    /\ cfg.RefreshToken = Empty
    /\ Goto("exit_err")
    /\ NoExchange
    /\ UNCHANGED <<sessionFile, cfgFile, cfg, srv, cmd, client, session, otp, hist>>
    /\ Frame
    /\ UNCHANGED tickers

runOTPLogin ==
    /\ pc = "login_auth"
    /\ \E phoneGiven \in BOOLEAN :
         IF ~phoneGiven
         THEN /\ Goto("exit_err")
              /\ UNCHANGED <<client, otp>>
         ELSE \E requestID \in RequestIDs, deviceHash \in TransientHashes :
              /\ otp' = [NoOTP EXCEPT !.requestID = requestID,
                                       !.deviceHash = deviceHash,
                                       !.original = GetDeviceHash(client)]
              /\ client' = SetDeviceHash(client, deviceHash)
              /\ Goto("otp_request")
    /\ NoExchange
    /\ UNCHANGED <<sessionFile, cfgFile, cfg, srv, cmd, session, hist>>
    /\ Frame
    /\ UNCHANGED tickers

otpRequest_noRestore ==
    /\ pc = "otp_request"
    /\ \E resp \in Responses :
         LET r == RequestOTP(client, otp.requestID, resp) IN
         /\ Exchange(r.req, resp)
         /\ otp' = [otp EXCEPT !.sent = [device |-> r.req.device,
                                         requestID |-> r.req.body]]
         /\ client' = client
         /\ Goto(IF r.err THEN "exit_err" ELSE "otp_read")
    /\ UNCHANGED <<sessionFile, cfgFile, cfg, srv, cmd, session, hist>>
    /\ Frame
    /\ UNCHANGED tickers

otpRequest ==
    /\ pc = "otp_request"
    /\ \E resp \in Responses :
         LET r == RequestOTP(client, otp.requestID, resp) IN
         /\ Exchange(r.req, resp)
         /\ otp' = [otp EXCEPT !.sent = [device |-> r.req.device,
                                         requestID |-> r.req.body]]
         /\ IF r.err
            THEN /\ client' = SetDeviceHash(client, otp.original)
                 /\ Goto("exit_err")
            ELSE /\ client' = client
                 /\ Goto("otp_read")
    /\ UNCHANGED <<sessionFile, cfgFile, cfg, srv, cmd, session, hist>>
    /\ Frame
    /\ UNCHANGED tickers

otpRead_restoresEarly ==
    /\ pc = "otp_read"
    /\ \E input \in {"unreadable", "empty", "code"} :
         /\ client' = SetDeviceHash(client, otp.original)
         /\ Goto(IF input # "code" THEN "exit_err" ELSE "otp_verify")
    /\ NoExchange
    /\ UNCHANGED <<sessionFile, cfgFile, cfg, srv, cmd, session, otp, hist>>
    /\ Frame
    /\ UNCHANGED tickers

otpRead ==
    /\ pc = "otp_read"
    /\ \E input \in {"unreadable", "empty", "code"} :
         IF input # "code"
         THEN /\ client' = SetDeviceHash(client, otp.original)
              /\ Goto("exit_err")
         ELSE /\ client' = client
              /\ Goto("otp_verify")
    /\ NoExchange
    /\ UNCHANGED <<sessionFile, cfgFile, cfg, srv, cmd, session, otp, hist>>
    /\ Frame
    /\ UNCHANGED tickers

otpVerify ==
    /\ pc = "otp_verify"
    /\ \E resp \in {r \in Responses : r.kind = "ok" => srv.issued < MaxIssued} :
         LET r == VerifyOTP(client, otp.requestID, resp) IN
         /\ Exchange(r.req, resp)
         /\ client' = SetDeviceHash(client, otp.original)
         /\ IF r.err
            THEN /\ Goto("exit_err")
                 /\ UNCHANGED <<otp, srv>>
            ELSE /\ otp' = [otp EXCEPT !.token = RT(srv.issued + 1)]
                 /\ srv' = [refresh |-> RT(srv.issued + 1), issued |-> srv.issued + 1]
                 /\ Goto("otp_update")
    /\ UNCHANGED <<sessionFile, cfgFile, cfg, cmd, session, hist>>
    /\ Frame
    /\ UNCHANGED tickers

otpUpdateConfig ==
    /\ pc = "otp_update"
    /\ \E outcome \in {"ok", "write_failed", "reload_failed"} :
         /\ cfgFile' = IF outcome = "write_failed" THEN cfgFile
                       ELSE [RefreshToken |-> otp.token, DeviceHash |-> otp.deviceHash]
         /\ cfg' = IF outcome = "ok" THEN cfgFile' ELSE cfg
         /\ Goto(IF outcome = "ok" THEN "rt_begin" ELSE "exit_err")
    /\ NoExchange
    /\ UNCHANGED <<sessionFile, srv, cmd, client, session, otp, hist>>
    /\ Frame
    /\ UNCHANGED tickers

runLoginWithRefreshToken ==
    /\ pc \in {"login_auth", "rt_begin"}
    /\ pc = "login_auth" => cfg.RefreshToken # Empty
    /\ client' = NewClient(cfg)
    /\ IF cfg.RefreshToken = Empty
       THEN /\ session' = session
            /\ Goto("exit_err")
       ELSE /\ session' = InitializeSession(cfg.RefreshToken, client'.deviceHash)
            /\ Goto("rt_refresh")
    /\ NoExchange
    /\ UNCHANGED <<sessionFile, cfgFile, cfg, srv, cmd, otp, hist>>
    /\ Frame
    /\ tickers' = NewTicker(tickers)

loginRefresh == RefreshStep("rt_refresh", "rt_save", "exit_err")

loginSave == SaveStep("rt_save", "rt_check", "exit_err")

loginVerify == CheckStep("rt_check", "exit_ok", "exit_ok")

----------------------------------------------------------------------------
(* bend check *)

runCheck ==
    /\ pc = "idle"
    /\ cmd' = "check"
    /\ cfg' = cfgFile
    /\ info' = GetSessionInfo(sessionFile, now)
    /\ IF ~info'.Exists
       THEN pc' = "ac_begin" /\ ret' = "A1"
       ELSE pc' = "ck_valid" /\ ret' = "none"
    /\ result' = "none"
    /\ otp' = NoOTP
    /\ hist' = NoHist
    /\ NoExchange
    /\ UNCHANGED <<sessionFile, cfgFile, srv, client, session>>
    /\ Frame
    /\ tickers' = 0

checkValidity ==
    /\ pc = "ck_valid"
    /\ IF ~info.Valid
       THEN IF info.HasRefreshToken
            THEN pc' = "rs_begin" /\ ret' = "Ra"
            ELSE pc' = "ac_begin" /\ ret' = "A2"
       ELSE pc' = "ck_test" /\ ret' = ret
    /\ NoExchange
    /\ UNCHANGED <<sessionFile, cfgFile, cfg, srv, cmd, client, session, info,
                   otp, result, hist>>
    /\ Frame
    /\ UNCHANGED tickers

checkLoad ==
    /\ pc = "ck_test"
    /\ client' = NewClient(cfg)
    /\ IF LoadSession(sessionFile).err
       THEN session' = session /\ Goto("exit_err")
       ELSE session' = LoadSession(sessionFile).session /\ Goto("ck_api")
    /\ NoExchange
    /\ UNCHANGED <<sessionFile, cfgFile, cfg, srv, cmd, otp, hist>>
    /\ Frame
    /\ tickers' = NewTicker(tickers)

checkAPI ==
    /\ pc = "ck_api"
    /\ \E resp \in Responses :
         LET r == CheckSession(client, session, now, resp) IN
         /\ session' = r.session
         /\ Exchange(r.req, resp)
         /\ IF r.err
            THEN IF info.HasRefreshToken
                 THEN pc' = "rs_begin" /\ ret' = "Rb" /\ result' = result
                 ELSE pc' = "ac_begin" /\ ret' = "A4" /\ result' = result
            ELSE pc' = "idle" /\ ret' = ret /\ result' = "ok"
    /\ UNCHANGED <<sessionFile, cfgFile, cfg, srv, cmd, client, info, otp, hist>>
    /\ Frame
    /\ UNCHANGED tickers

refreshSession ==
    /\ pc = "rs_begin"
    /\ client' = NewClient(cfg)
    /\ IF LoadSession(sessionFile).err
       THEN session' = session /\ Goto("return_err")
       ELSE session' = LoadSession(sessionFile).session /\ Goto("rs_refresh")
    /\ NoExchange
    /\ UNCHANGED <<sessionFile, cfgFile, cfg, srv, cmd, otp, hist>>
    /\ Frame
    /\ tickers' = NewTicker(tickers)

refreshSessionRefresh == RefreshStep("rs_refresh", "rs_save", "return_err")

refreshSessionSave == SaveStep("rs_save", "rs_check", "return_err")

refreshSessionTest == CheckStep("rs_check", "return_ok", "return_err")

authenticateFromConfig ==
    /\ pc = "ac_begin"
    /\ IF cfg.RefreshToken = Empty
       THEN /\ UNCHANGED <<client, session>>
            /\ Goto("return_err")
       ELSE /\ client' = NewClient(cfg)
            /\ session' = InitializeSession(cfg.RefreshToken, client'.deviceHash)
            /\ Goto("ac_refresh")
    /\ NoExchange
    /\ UNCHANGED <<sessionFile, cfgFile, cfg, srv, cmd, otp, hist>>
    /\ Frame
    /\ tickers' = IF cfg.RefreshToken = Empty THEN tickers
                   ELSE NewTicker(tickers)

authenticateFromConfigRefresh == RefreshStep("ac_refresh", "ac_save", "return_err")

authenticateFromConfigSave == SaveStep("ac_save", "ac_check", "return_err")

authenticateFromConfigTest == CheckStep("ac_check", "return_ok", "return_err")

----------------------------------------------------------------------------
(* bend accounts *)

runAccounts ==
    /\ pc = "idle"
    /\ cmd' = "accounts"
    /\ cfg' = cfgFile
    /\ info' = GetSessionInfo(sessionFile, now)
    /\ client' = NewClient(cfgFile)
    /\ IF ~info'.Exists
       THEN session' = Nil /\ pc' = "idle" /\ result' = "err"
       ELSE /\ session' = LoadSession(sessionFile).session
            /\ IF ~info'.Valid
               THEN IF info'.HasRefreshToken
                    THEN pc' = "acc_refresh" /\ result' = "none"
                    ELSE pc' = "idle" /\ result' = "err"
               ELSE pc' = "acc_fetch" /\ result' = "none"
    /\ ret' = "none"
    /\ otp' = NoOTP
    /\ hist' = NoHist
    /\ NoExchange
    /\ UNCHANGED <<sessionFile, cfgFile, srv>>
    /\ Frame
    /\ tickers' = IF pc' = "acc_refresh" THEN NewTicker(0) ELSE 0

accountsRefresh_skipsSave == RefreshStep("acc_refresh", "acc_fetch", "exit_err")

accountsRefresh == RefreshStep("acc_refresh", "acc_save", "exit_err")

accountsSave == SaveStep("acc_save", "acc_fetch", "exit_err")

accountsFetch ==
    /\ pc = "acc_fetch"
    /\ client' = NewClient(cfg)
    /\ \E resp \in Responses :
         LET r == GetAccounts(client', session, resp) IN
         /\ session' = r.session
         /\ Exchange(r.req, resp)
         /\ Goto(IF r.err THEN "exit_err" ELSE "exit_ok")
    /\ UNCHANGED <<sessionFile, cfgFile, cfg, srv, cmd, otp, hist>>
    /\ Frame
    /\ tickers' = NewTicker(tickers)

----------------------------------------------------------------------------
(* bend transactions *)

setupClientAndSession ==
    /\ pc = "idle"
    /\ cmd' = "transactions"
    /\ cfg' = cfgFile
    /\ client' = NewClient(cfgFile)
    /\ IF LoadSession(sessionFile).err
       THEN /\ session' = Nil
            /\ info' = NoInfo
            /\ pc' = "idle" /\ result' = "err"
       ELSE /\ session' = LoadSession(sessionFile).session
            /\ info' = GetSessionInfo(sessionFile, now)
            /\ pc' = IF info'.Valid THEN "tx_user" ELSE "tx_refresh"
            /\ result' = "none"
    /\ ret' = "none"
    /\ otp' = NoOTP
    /\ hist' = NoHist
    /\ NoExchange
    /\ UNCHANGED <<sessionFile, cfgFile, srv>>
    /\ Frame
    /\ tickers' = NewTicker(0)

transactionsRefresh == RefreshStep("tx_refresh", "tx_save", "exit_err")

transactionsSave == SaveStep("tx_save", "tx_user", "exit_err")

(* parseDateRange and setupStagingDirectory may reject the invocation      *)
(* before the user id is requested.                                        *)
transactionsGetUserID ==
    /\ pc = "tx_user"
    /\ \E localOk \in BOOLEAN, resp \in Responses :
         LET r == GetUserID(client, session, now, resp) IN
         IF ~localOk
         THEN /\ session' = session
              /\ NoExchange
              /\ Goto("exit_err")
         ELSE /\ session' = r.session
              /\ Exchange(r.req, resp)
              /\ Goto(IF r.err THEN "exit_err" ELSE "tx_fetch")
    /\ UNCHANGED <<sessionFile, cfgFile, cfg, srv, cmd, client, otp, hist>>
    /\ Frame
    /\ UNCHANGED tickers

transactionsFetch ==
    /\ pc = "tx_fetch"
    /\ \E resp \in TransactionResponses({NoPage}) :
         LET r == FetchTransactions(client, session, BasicPageSize, Empty, resp) IN
         /\ session' = r.session
         /\ Exchange(r.req, resp)
         /\ Goto(IF r.err THEN "exit_err" ELSE "exit_ok")
    /\ UNCHANGED <<sessionFile, cfgFile, cfg, srv, cmd, client, otp, hist>>
    /\ Frame
    /\ UNCHANGED tickers

----------------------------------------------------------------------------
(* Command runs against the service, with the clock advancing *)

Tick ==
    /\ now < MaxTime
    /\ now' = now + 1
    /\ NoExchange
    /\ UNCHANGED <<sessionFile, cfgFile, cfg, srv, cmd, pc, ret, client, session,
                   info, otp, result, hist, valid, fa, pages, ledger,
                   tickers, limiter, call, report, disk, procs, device>>

InitCmd ==
    /\ now = 1
    /\ session = Nil
    /\ valid = [called |-> FALSE, result |-> FALSE]
    /\ IdleCmd({Empty, RT(1)})
    /\ IdleFetch
    /\ IdleLimiter

NextCmd ==
    \/ Tick
    \/ runLogin \/ loginCheckSession \/ loginNoRefreshToken
    \/ runOTPLogin \/ otpRequest \/ otpRead \/ otpVerify \/ otpUpdateConfig
    \/ runLoginWithRefreshToken \/ loginRefresh \/ loginSave \/ loginVerify
    \/ runCheck \/ checkValidity \/ checkLoad \/ checkAPI
    \/ refreshSession \/ refreshSessionRefresh \/ refreshSessionSave
    \/ refreshSessionTest
    \/ authenticateFromConfig \/ authenticateFromConfigRefresh
    \/ authenticateFromConfigSave \/ authenticateFromConfigTest
    \/ runAccounts \/ accountsRefresh \/ accountsSave \/ accountsFetch
    \/ setupClientAndSession \/ transactionsRefresh \/ transactionsSave
    \/ transactionsGetUserID \/ transactionsFetch

SpecCmd == InitCmd /\ [][NextCmd]_vars

----------------------------------------------------------------------------
(* Specification of IsSessionValid as a function of session and clock *)

ValidInputs ==
    {Nil} \cup
    { [InitializeSession(Empty, "d1") EXCEPT !.AccessToken = a, !.ExpiresAt = e] :
        a \in {Empty, AT(1)}, e \in 0..MaxExpiry }

InitValid ==
    /\ now \in 1..MaxClock
    /\ session \in ValidInputs
    /\ valid = [called |-> FALSE, result |-> FALSE]
    /\ IdleCmd({RT(1)})
    /\ IdleFetch
    /\ IdleLimiter

CallIsSessionValid ==
    /\ ~valid.called
    /\ valid' = [called |-> TRUE, result |-> IsSessionValid(session, now)]
    /\ UNCHANGED <<now, session, cmdVars, fetchVars, limVars, opVars,
                 storeVars>>

ChooseSession ==
    /\ valid.called
    /\ valid' = [called |-> FALSE, result |-> FALSE]
    /\ session' \in ValidInputs
    /\ now' \in 1..MaxClock
    /\ UNCHANGED <<cmdVars, fetchVars, limVars, opVars,
                 storeVars>>

NextValid == CallIsSessionValid \/ ChooseSession

SpecValid == InitValid /\ [][NextValid]_vars

----------------------------------------------------------------------------
(* The transactions endpoint of the remote service.  The page served at a  *)
(* position holds the transactions numbered from there on.  A faithful     *)
(* service holds ledger.total transactions, serves at most the page size   *)
(* asked for, and with the last page returns either no cursor or the       *)
(* cursor of the end of the list.  An unfaithful one serves pages of any   *)
(* length with any cursor, and counts at the odd positions only.           *)

DefaultPageSize == 2

MaxRuns == 2

MaxCalls == 3

TickerBuffer == 1

RogueCursors == {Cursor(k) : k \in 0..2}

Min(a, b) == IF a < b THEN a ELSE b

Page(pos, n, counted, next, total) ==
    [Transactions |-> [i \in 1..n |-> pos + i],
     Counts       |-> IF counted THEN << <<"count", pos>> >> ELSE <<>>,
     Total        |-> total,
     After        |-> next]

ServerPages(query) ==
    LET pos  == Position(QueryAfter(query))
        size == IF QueryLimit(query) = 0 THEN DefaultPageSize
                ELSE QueryLimit(query)
        left == IF ledger.total > pos THEN ledger.total - pos ELSE 0
        n    == Min(size, left)
    IN  IF ledger.faithful
        THEN { Page(pos, n, counted, next, ledger.total) :
                 counted \in BOOLEAN,
                 next \in IF n = 0 THEN {Empty}
                          ELSE IF n = left THEN {Empty, Cursor(pos + n)}
                          ELSE {Cursor(pos + n)} }
        ELSE { Page(pos, m, pos % 2 = 1, next, ledger.total) :
                 m \in 0..MaxLimit, next \in RogueCursors }

----------------------------------------------------------------------------
(* FetchAllTransactions *)

Limits == (-1)..MaxLimit

(* The call: the locals before the loop is entered *)
FetchAllTransactions ==
    /\ fa.pc = "idle"
    /\ \E limit \in Limits :
         fa' = [pc |-> "loop", limit |-> limit, after |-> Empty,
                allTransactions |-> <<>>, allCounts |-> <<>>, err |-> FALSE]
    /\ pages' = <<>>
    /\ UNCHANGED <<now, session, valid, ledger, cmdVars, limVars, opVars,
                 storeVars>>

FetchAllTransactionsBody_ignoresShortPage(f, r) ==
    IF r.err
    THEN [f EXCEPT !.pc = "done", !.err = TRUE,
                   !.allTransactions = <<>>, !.allCounts = <<>>]
    ELSE LET all    == f.allTransactions \o r.data.Transactions
             counts == IF Len(r.data.Counts) > 0
                       THEN f.allCounts \o r.data.Counts
                       ELSE f.allCounts
         IN  IF r.data.After = Empty
             THEN [f EXCEPT !.pc = "done",
                            !.allTransactions = all, !.allCounts = counts]
             ELSE [f EXCEPT !.after = r.data.After,
                            !.allTransactions = all, !.allCounts = counts]

FetchAllTransactionsBody_defaultsLimit(f, r) ==
    IF r.err
    THEN [f EXCEPT !.pc = "done", !.err = TRUE,
                   !.allTransactions = <<>>, !.allCounts = <<>>]
    ELSE LET all    == f.allTransactions \o r.data.Transactions
             counts == IF Len(r.data.Counts) > 0
                       THEN f.allCounts \o r.data.Counts
                       ELSE f.allCounts
             size   == IF f.limit <= 0 THEN DefaultPageSize ELSE f.limit
         IN  IF r.data.After = Empty \/ Len(r.data.Transactions) < size
             THEN [f EXCEPT !.pc = "done",
                            !.allTransactions = all, !.allCounts = counts]
             ELSE [f EXCEPT !.after = r.data.After,
                            !.allTransactions = all, !.allCounts = counts]

FetchAllTransactionsBody_returnsPartial(f, r) ==
    IF r.err
    THEN [f EXCEPT !.pc = "done", !.err = TRUE]
    ELSE LET all    == f.allTransactions \o r.data.Transactions
             counts == IF Len(r.data.Counts) > 0
                       THEN f.allCounts \o r.data.Counts
                       ELSE f.allCounts
         IN  IF r.data.After = Empty \/ Len(r.data.Transactions) < f.limit
             THEN [f EXCEPT !.pc = "done",
                            !.allTransactions = all, !.allCounts = counts]
             ELSE [f EXCEPT !.after = r.data.After,
                            !.allTransactions = all, !.allCounts = counts]

(* One pass through the loop body, given the result r of FetchTransactions *)
FetchAllTransactionsBody(f, r) ==
    IF r.err
    THEN [f EXCEPT !.pc = "done", !.err = TRUE,
                   !.allTransactions = <<>>, !.allCounts = <<>>]
    ELSE LET all    == f.allTransactions \o r.data.Transactions
             counts == IF Len(r.data.Counts) > 0
                       THEN f.allCounts \o r.data.Counts
                       ELSE f.allCounts
         IN  IF r.data.After = Empty \/ Len(r.data.Transactions) < f.limit
             THEN [f EXCEPT !.pc = "done",
                            !.allTransactions = all, !.allCounts = counts]
             ELSE [f EXCEPT !.after = r.data.After,
                            !.allTransactions = all, !.allCounts = counts]

(* The request a FetchTransactions call sends does not depend on the       *)
(* response; the service answers the request that was sent.                *)
Unanswered == [kind |-> "transport", cookies |-> <<>>, data |-> NoPage]

Answers(req) ==
    IF req = NoReq THEN {Unanswered}
    ELSE TransactionResponses(ServerPages(req.body))

(* pages records every request that went out, with the page it fetched     *)
FetchAllTransactionsPage ==
    /\ fa.pc = "loop"
    /\ Len(pages) < MaxPages
    /\ \E resp \in Answers(FetchTransactions(client, session, fa.limit,
                                              fa.after, Unanswered).req) :
         LET r == FetchTransactions(client, session, fa.limit, fa.after, resp) IN
         /\ fa' = FetchAllTransactionsBody(fa, r)
         /\ session' = r.session
         /\ pages' = IF r.req = NoReq THEN pages
                     ELSE Append(pages, [query |-> r.req.body, err |-> r.err,
                                         data |-> r.data])
    /\ UNCHANGED <<now, valid, ledger, cmdVars, limVars, opVars,
                 storeVars>>

Ledgers ==
    { [faithful |-> TRUE, total |-> n] : n \in 0..MaxTotal }
    \cup {[faithful |-> FALSE, total |-> 0]}

InitFetch ==
    /\ now = 1
    /\ session \in {Nil, [InitializeSession(RT(1), "d1") EXCEPT
                             !.AccessToken = AT(1), !.ExpiresAt = MaxExpiry]}
    /\ valid = [called |-> FALSE, result |-> FALSE]
    /\ IdleCmd({RT(1)})
    /\ fa = NoFetch
    /\ pages = <<>>
    /\ ledger \in Ledgers
    /\ IdleLimiter

NextFetch == FetchAllTransactions \/ FetchAllTransactionsPage

SpecFetch == InitFetch /\ [][NextFetch]_vars

----------------------------------------------------------------------------
(* FetchAllTransactions run to its end.  Its loop has no bound of its own: *)
(* past the MaxPages requests that pages records, a pass through the loop  *)
(* body is taken with the record and the accumulated lists left as they    *)
(* are, so that a run in which the service keeps the loop going is a cycle *)
(* of the model.                                                           *)

FetchAllTransactionsBeyond ==
    /\ fa.pc = "loop"
    /\ Len(pages) = MaxPages
    /\ \E resp \in Answers(FetchTransactions(client, session, fa.limit,
                                              fa.after, Unanswered).req) :
         LET r == FetchTransactions(client, session, fa.limit, fa.after, resp)
             f == FetchAllTransactionsBody(fa, r)
         IN  /\ fa' = IF f.err THEN f
                      ELSE [f EXCEPT !.allTransactions = fa.allTransactions,
                                     !.allCounts = fa.allCounts]
             /\ session' = r.session
    /\ UNCHANGED <<now, valid, pages, ledger, cmdVars, limVars, opVars,
                 storeVars>>

NextFetchLive ==
    FetchAllTransactions \/ FetchAllTransactionsPage \/ FetchAllTransactionsBeyond

(* Every FetchTransactions call returns: the HTTP client has a timeout.    *)
SpecFetchLive ==
    /\ InitFetch
    /\ [][NextFetchLive]_vars
    /\ WF_vars(FetchAllTransactionsPage)
    /\ WF_vars(FetchAllTransactionsBeyond)

----------------------------------------------------------------------------
(* Error messages of non-2xx responses.  A response body is a sequence of  *)
(* runs, each a number of units of one kind: "print" a printable one-byte  *)
(* character, "ctl" a control character below 32 other than \n, \r, \t,    *)
(* "wide" a printable character of two bytes, "bad" a byte that makes the  *)
(* body invalid UTF-8.  body.json tells what json.Unmarshal makes of it:   *)
(* "none" no JSON object, "error" an envelope with a non-null error,       *)
(* "null" an object whose error is null or absent.                         *)

Width(kind) == IF kind = "wide" THEN 2 ELSE 1

RECURSIVE Bytes(_)
Bytes(runs) ==
    IF runs = <<>> THEN 0
    ELSE Head(runs).n * Width(Head(runs).kind) + Bytes(Tail(runs))

RECURSIVE Chars(_)
Chars(runs) ==
    IF runs = <<>> THEN 0 ELSE Head(runs).n + Chars(Tail(runs))

(* utf8.Valid *)
Utf8Valid(runs) == \A i \in 1..Len(runs) : runs[i].kind # "bad"

(* The control characters that start at a byte index of at most ScanLimit, *)
(* in runs that begin at byte index from.                                  *)
RECURSIVE ControlChars(_, _)
ControlChars(runs, from) ==
    IF runs = <<>> \/ from > ScanLimit THEN 0
    ELSE LET r    == Head(runs)
             last == from + r.n * Width(r.kind) - 1
             seen == IF last > ScanLimit THEN ScanLimit - from + 1 ELSE r.n
         IN  (IF r.kind = "ctl" THEN seen ELSE 0)
             + ControlChars(Tail(runs), last + 1)

isTextContent(runs) ==
    IF Bytes(runs) = 0 THEN TRUE
    ELSE IF ~Utf8Valid(runs) THEN FALSE
    ELSE ControlChars(runs, 0) * TenthDivisor < Bytes(runs)

(* errorMsg[:k]: the first k bytes.  A two-byte character cut in half      *)
(* leaves one byte that is no valid UTF-8.                                 *)
RECURSIVE TakeBytes(_, _)
TakeBytes(runs, k) ==
    IF runs = <<>> \/ k = 0 THEN <<>>
    ELSE LET r == Head(runs)
             w == Width(r.kind)
         IN  IF r.n * w <= k
             THEN <<r>> \o TakeBytes(Tail(runs), k - r.n * w)
             ELSE (IF k \div w > 0 THEN <<[kind |-> r.kind, n |-> k \div w]>>
                   ELSE <<>>)
                  \o (IF k % w > 0 THEN <<[kind |-> "bad", n |-> 1]>> ELSE <<>>)

handleErrorResponse(status, body) ==
    LET errorMsg ==
          IF ~isTextContent(body.runs)
          THEN [kind |-> "placeholder", text |-> <<>>, ellipsis |-> FALSE]
          ELSE IF Bytes(body.runs) > TextLimit
          THEN [kind |-> "body", text |-> TakeBytes(body.runs, TextLimit),
                ellipsis |-> TRUE]
          ELSE [kind |-> "body", text |-> body.runs, ellipsis |-> FALSE]
    IN  IF body.json = "error"
        THEN [status |-> status, kind |-> "envelope", text |-> <<>>,
              ellipsis |-> FALSE]
        ELSE [status |-> status, kind |-> errorMsg.kind, text |-> errorMsg.text,
              ellipsis |-> errorMsg.ellipsis]

RunKinds == {"print", "ctl", "wide", "bad"}

RunSizes == {1, 100, 101, 200, 201, 900, 1000, 5000, 20000}

Runs == [kind : RunKinds, n : RunSizes]

(* json.Unmarshal into APIResponse succeeds only on text that is a JSON    *)
(* object: it starts with { and ends with }, holds no raw control          *)
(* character, and has at least the 11 bytes of {"error":1} when its error  *)
(* is not null.                                                            *)
Parses(runs, json) ==
    \/ json = "none"
    \/ /\ runs # <<>>
       /\ \A i \in 1..Len(runs) : runs[i].kind \in {"print", "wide"}
       /\ Head(runs).kind = "print" /\ runs[Len(runs)].kind = "print"
       /\ Bytes(runs) >= (IF json = "error" THEN 11 ELSE 2)

Statuses == {199, 200, 299, 300, 404}

NoMessage == [status |-> 0, kind |-> "none", text |-> <<>>, ellipsis |-> FALSE]

(* The kind of response doRequest sees: the body could not be read or      *)
(* decompressed, the status is outside 200..299, or the 2xx body is what   *)
(* json.Unmarshal makes of it.                                             *)
ResponseKind(status, readable, body) ==
    IF ~readable THEN "transport"
    ELSE IF status < 200 \/ status >= 300 THEN "non2xx"
    ELSE IF body.json = "none" THEN "undecodable"
    ELSE IF body.json = "error" THEN "enverror"
    ELSE "ok"

doRequestError_dropsStatus(status, readable, body) ==
    LET kind == ResponseKind(status, readable, body)
    IN  [err |-> doRequest(Nil, [kind |-> kind, cookies |-> <<>>]).err,
         msg |-> IF kind = "non2xx"
                 THEN [handleErrorResponse(status, body) EXCEPT !.status = 0]
                 ELSE NoMessage]

doRequestError(status, readable, body) ==
    LET kind == ResponseKind(status, readable, body)
    IN  [err |-> doRequest(Nil, [kind |-> kind, cookies |-> <<>>]).err,
         msg |-> IF kind = "non2xx" THEN handleErrorResponse(status, body)
                 ELSE NoMessage]

(* A response arrives for a request and doRequest returns.                 *)
Respond ==
    /\ ~report.called
    /\ \E status \in Statuses, readable \in BOOLEAN, k \in 0..MaxRuns :
       \E runs \in [1..k -> Runs], json \in {"none", "error", "null"} :
       LET body == [runs |-> runs, json |-> json] IN
       /\ Parses(runs, json)
       /\ readable \/ body = [runs |-> <<>>, json |-> "none"]
       /\ report' = [called   |-> TRUE,
                     status   |-> status,
                     readable |-> readable,
                     body     |-> body,
                     err      |-> doRequestError(status, readable, body).err,
                     msg      |-> doRequestError(status, readable, body).msg]
       /\ UNCHANGED <<now, session, valid, cmdVars, fetchVars, limVars, call,
                 storeVars>>

InitError ==
    /\ now = 1
    /\ session = Nil
    /\ valid = [called |-> FALSE, result |-> FALSE]
    /\ IdleCmd({RT(1)})
    /\ IdleFetch
    /\ IdleLimiter

NextError == Respond

SpecError == InitError /\ [][NextError]_vars

----------------------------------------------------------------------------
(* The operations of a client, each called once on a session of any shape  *)
(* and answered by any response.  call records the session before and      *)
(* after, the response, and what the operation returned: data is "nil"     *)
(* where the code returns nil for the payload.                             *)

OpSessions ==
    {Nil} \cup
    [AccessToken  : {Empty, AT(1)},
     RefreshToken : {Empty, RT(1)},
     ExpiresAt    : {ZeroTime, MaxExpiry},
     TokenType    : {"", "Bearer"},
     MarbleCookie : {NoCookie, "c0"},
     DeviceHash   : {"d1"}]

OpPages == {Page(0, 0, FALSE, Empty, 0), Page(0, 1, TRUE, Cursor(1), 1)}

Returned(op, s, resp, res, data) ==
    [op     |-> op,
     before |-> s,
     resp   |-> resp,
     err    |-> res.err,
     after  |-> res.session,
     sent   |-> res.req # NoReq,
     data   |-> IF res.err THEN "nil" ELSE data]

(* Responses that set the marble-cookie twice *)
TwoCookies ==
    { [kind |-> k, cookies |-> <<"c1", "c2">>] :
        k \in {"non2xx", "undecodable", "enverror", "ok"} }

CheckSessionCall ==
    /\ call = NoCall
    /\ \E s \in OpSessions, resp \in Responses \cup TwoCookies :
         call' = Returned("CheckSession", s, resp,
                          CheckSession(NewClient([DeviceHash |-> "d1"]),
                                       s, now, resp),
                          "user")
    /\ UNCHANGED <<now, session, valid, cmdVars, fetchVars, limVars, report,
                 storeVars>>

RefreshSessionCall ==
    /\ call = NoCall
    /\ \E s \in OpSessions,
          resp \in RefreshFailures \cup
                   { [kind |-> "ok", cookies |-> c,
                      data |-> Issue(2, "MAC", MaxExpiry + 1)] :
                       c \in CookieHeaders } :
         call' = Returned("RefreshSession", s, resp,
                          RefreshSession(NewClient([DeviceHash |-> "d1"]),
                                         s, resp),
                          "none")
    /\ UNCHANGED <<now, session, valid, cmdVars, fetchVars, limVars, report,
                 storeVars>>

FetchTransactionsWithFiltersCall ==
    /\ call = NoCall
    /\ \E s \in OpSessions, resp \in TransactionResponses(OpPages) :
         LET res == FetchTransactionsWithFilters(
                        NewClient([DeviceHash |-> "d1"]), s,
                        TransactionFilters(1, Empty), resp)
         IN  call' = Returned("FetchTransactionsWithFilters", s, resp, res,
                              res.data)
    /\ UNCHANGED <<now, session, valid, cmdVars, fetchVars, limVars, report,
                 storeVars>>

GetAccountsCall ==
    /\ call = NoCall
    /\ \E s \in OpSessions, resp \in Responses :
         call' = Returned("GetAccounts", s, resp,
                          GetAccounts(NewClient([DeviceHash |-> "d1"]),
                                      s, resp),
                          "accounts")
    /\ UNCHANGED <<now, session, valid, cmdVars, fetchVars, limVars, report,
                 storeVars>>

(* call.prev: the session the client held when InitializeFromRefreshToken *)
(* was called; call.before: the session its RefreshSession call started   *)
(* with.                                                                   *)
InitializeFromRefreshTokenCall ==
    /\ call = NoCall
    /\ \E s \in OpSessions, t \in {Empty, RT(1)},
          resp \in RefreshFailures \cup
                   { [kind |-> "ok", cookies |-> c,
                      data |-> Issue(2, "MAC", MaxExpiry + 1)] :
                       c \in CookieHeaders } :
         LET res == InitializeFromRefreshToken(
                        NewClient([DeviceHash |-> "d2"]), s, t, resp)
         IN  call' = [op     |-> "InitializeFromRefreshToken",
                      prev   |-> s,
                      before |-> InitializeSession(t, "d2"),
                      token  |-> t,
                      resp   |-> resp,
                      err    |-> res.err,
                      after  |-> res.session,
                      sent   |-> res.req # NoReq,
                      req    |-> res.req,
                      data   |-> IF res.err THEN "nil" ELSE "none"]
    /\ UNCHANGED <<now, session, valid, cmdVars, fetchVars, limVars, report,
                 storeVars>>

InitOps ==
    /\ now = 1
    /\ session = Nil
    /\ valid = [called |-> FALSE, result |-> FALSE]
    /\ IdleCmd({RT(1)})
    /\ IdleFetch
    /\ IdleLimiter

NextOps ==
    \/ CheckSessionCall
    \/ RefreshSessionCall
    \/ FetchTransactionsWithFiltersCall
    \/ GetAccountsCall
    \/ InitializeFromRefreshTokenCall

SpecOps == InitOps /\ [][NextOps]_vars

----------------------------------------------------------------------------
(* One operation of a client followed from its call to its return: the     *)
(* checks before the request, the request, the response, the return.       *)
(* call.attempts counts the HTTP requests the operation has issued.        *)

OpNames == {"CheckSession", "RefreshSession", "FetchTransactionsWithFilters",
            "GetAccounts"}

OpResponses(op) ==
    CASE op = "RefreshSession" ->
           RefreshFailures \cup
           { [kind |-> "ok", cookies |-> c,
              data |-> Issue(2, "MAC", MaxExpiry + 1)] : c \in CookieHeaders }
      [] op = "FetchTransactionsWithFilters" -> TransactionResponses(OpPages)
      [] OTHER -> Responses

Outcome(op, s, t, resp) ==
    LET c == NewClient([DeviceHash |-> "d1"])
    IN  CASE op = "CheckSession"   -> CheckSession(c, s, t, resp)
          [] op = "RefreshSession" -> RefreshSession(c, s, resp)
          [] op = "GetAccounts"    -> GetAccounts(c, s, resp)
          [] op = "FetchTransactionsWithFilters" ->
               [x \in {"err", "session", "req"} |->
                  FetchTransactionsWithFilters(
                      c, s, TransactionFilters(1, Empty), resp)[x]]

(* Whether the operation gets as far as its request. *)
Requests(op, s, t) ==
    Outcome(op, s, t, [kind |-> "transport", cookies |-> <<>>]).req # NoReq

(* The requests issued once doRequest has returned res, n having been      *)
(* issued before: the operation returns on an error and goes on to its     *)
(* return statement otherwise.                                             *)
AttemptsAfter_retriesOnError(res, n) == IF res.err THEN n + 1 ELSE n

AttemptsAfter(res, n) == n

OpCall ==
    /\ call = NoCall
    /\ \E op \in OpNames, s \in OpSessions :
         call' = [op       |-> op,
                  pc       |-> IF Requests(op, s, now) THEN "sent"
                               ELSE "returned",
                  before   |-> s,
                  after    |-> s,
                  attempts |-> IF Requests(op, s, now) THEN 1 ELSE 0,
                  req      |-> Outcome(op, s, now, [kind |-> "transport",
                                                    cookies |-> <<>>]).req,
                  resp     |-> NoResp,
                  err      |-> ~Requests(op, s, now)]
    /\ UNCHANGED <<now, session, valid, cmdVars, fetchVars, limVars, report,
                 storeVars>>

OpReturn ==
    /\ call # NoCall
    /\ call.pc = "sent"
    /\ \E resp \in OpResponses(call.op) :
         LET res == Outcome(call.op, call.before, now, resp)
         IN  call' = [call EXCEPT
                        !.pc       = "returned",
                        !.after    = res.session,
                        !.attempts = AttemptsAfter(res, call.attempts),
                        !.resp     = [kind |-> resp.kind,
                                      cookies |-> resp.cookies],
                        !.err      = res.err]
    /\ UNCHANGED <<now, session, valid, cmdVars, fetchVars, limVars, report,
                 storeVars>>

InitTry ==
    /\ now = 1
    /\ session = Nil
    /\ valid = [called |-> FALSE, result |-> FALSE]
    /\ IdleCmd({RT(1)})
    /\ IdleFetch
    /\ IdleLimiter

(* newRequest on a client with any session or none, as the operations and  *)
(* the OTP calls use it.                                                   *)
OpNewRequest ==
    /\ call = NoCall
    /\ \E s \in OpSessions :
         call' = [op       |-> "newRequest",
                  pc       |-> "returned",
                  before   |-> s,
                  after    |-> s,
                  attempts |-> 0,
                  req      |-> newRequest(NewClient([DeviceHash |-> "d1"]), s,
                                          "request", Empty),
                  resp     |-> NoResp,
                  err      |-> FALSE]
    /\ UNCHANGED <<now, session, valid, cmdVars, fetchVars, limVars, report,
                   storeVars>>

NextTry == OpCall \/ OpReturn \/ OpNewRequest

SpecTry == InitTry /\ [][NextTry]_vars

----------------------------------------------------------------------------
(* The rate limiter of one client: a time.Ticker of period RateLimit whose *)
(* channel holds at most one tick.  The ticker fires every RateLimit time  *)
(* units from its creation; a tick that finds the channel full is dropped. *)
(* Each operation (CheckSession, RefreshSession, GetAccounts,              *)
(* FetchTransactionsWithFilters) receives one tick from the channel and    *)
(* then sends its request.  Callers are goroutines: which of two callers   *)
(* that have both entered an operation reaches the channel first is up to  *)
(* the scheduler.                                                          *)

Callers == {"A", "B"}

Idle == [pc |-> "idle", call |-> 0, sends |-> FALSE, ticks |-> 0,
         rejected |-> "no", exchange |-> "none", err |-> FALSE]

NewLimiter(d) ==
    [running  |-> TRUE,
     period   |-> d,
     clock    |-> 0,
     next     |-> d,
     buffered |-> 0,
     fired    |-> 0,
     taken    |-> 0,
     calls    |-> 0,
     at       |-> [c \in Callers |-> Idle],
     started  |-> <<>>]

(* The ticker's channel after one more tick: a tick that finds the channel *)
(* full is dropped.                                                        *)
Tick_keepsEveryTick(buffered) == buffered + 1

Ticked(buffered) == IF buffered < TickerBuffer THEN buffered + 1 ELSE buffered

(* Time passes; the ticker, unless stopped, fires when its period has      *)
(* elapsed.                                                                *)
Elapse ==
    /\ limiter.clock < MaxElapsed
    /\ limiter' = IF limiter.running /\ limiter.clock + 1 = limiter.next
                  THEN [limiter EXCEPT !.clock = @ + 1,
                                       !.buffered = Ticked(@),
                                       !.fired = @ + 1,
                                       !.next = @ + limiter.period]
                  ELSE [limiter EXCEPT !.clock = @ + 1]
    /\ UNCHANGED <<now, session, valid, cmdVars, fetchVars, opVars,
                 storeVars>>

(* The check an operation makes before it waits for the rate limiter, and  *)
(* the error it returns with: "no" when the check passes.                  *)
Rejection_afterTheTick(op, s, t) == "no"

Rejection(op, s, t) ==
    CASE op = "CheckSession" ->
           IF s = Nil THEN "no session"
           ELSE IF t > s.ExpiresAt THEN "expired" ELSE "no"
      [] op = "RefreshSession" ->
           IF s = Nil \/ s.RefreshToken = Empty THEN "no refresh token"
           ELSE "no"
      [] OTHER -> IF s = Nil THEN "no session" ELSE "no"

(* The sessions a client is called with: none, or one with or without a   *)
(* refresh token, expired or not.                                          *)
LimiterSessions ==
    { s \in OpSessions : s = Nil \/ (/\ s.AccessToken = AT(1)
                                     /\ s.TokenType = "Bearer"
                                     /\ s.MarbleCookie = NoCookie) }

(* A caller invokes an operation on the client; calls are numbered in the  *)
(* order of their invocation.  The operation returns at once when its      *)
(* check fails and goes on to the rate limiter otherwise.                  *)
Invoke(c) ==
    /\ limiter.at[c].pc = "idle"
    /\ limiter.calls < MaxCalls
    /\ \E op \in OpNames, s \in LimiterSessions :
         LET why == Rejection(op, s, now)
         IN  limiter' =
               [limiter EXCEPT
                  !.calls = @ + 1,
                  !.at[c] = [Idle EXCEPT
                               !.pc = IF why = "no" THEN "called"
                                      ELSE "idle",
                               !.call = limiter.calls + 1,
                               !.sends = Requests(op, s, now),
                               !.rejected = why,
                               !.err = why # "no"]]
    /\ UNCHANGED <<now, session, valid, cmdVars, fetchVars, opVars,
                 storeVars>>

(* <-c.rateLimiter.C *)
Receive(c) ==
    /\ limiter.at[c].pc = "called"
    /\ limiter.buffered > 0
    /\ limiter' = [limiter EXCEPT !.buffered = @ - 1,
                                  !.taken = @ + 1,
                                  !.at[c].pc = "ticked",
                                  !.at[c].ticks = @ + 1]
    /\ UNCHANGED <<now, session, valid, cmdVars, fetchVars, opVars,
                 storeVars>>

(* newRequest, which can fail, and then the start of doRequest: the        *)
(* request is on its way.                                                  *)
Send(c) ==
    /\ limiter.at[c].pc = "ticked"
    /\ \E built \in BOOLEAN :
         limiter' = IF built
                    THEN [limiter EXCEPT
                            !.at[c].pc = "sent",
                            !.started = Append(@, [call |-> limiter.at[c].call,
                                                   at   |-> limiter.clock])]
                    ELSE [limiter EXCEPT !.at[c].pc = "idle",
                                         !.at[c].err = TRUE]
    /\ UNCHANGED <<now, session, valid, cmdVars, fetchVars, opVars,
                 storeVars>>

(* How the exchange ends: the timeout of the HTTP client expires, the      *)
(* transport fails otherwise, or a response arrives.                       *)
Exchanges == {"timeout", "transport", "non2xx", "ok"}

Arrived(exchange) ==
    [kind    |-> IF exchange = "timeout" THEN "transport" ELSE exchange,
     cookies |-> <<>>]

Finished_partialOnTimeout(exchange) ==
    exchange \in {"transport", "non2xx"}

Finished(exchange) == doRequest(Nil, Arrived(exchange)).err

(* httpClient.Do returns, with the response or with an error, and the      *)
(* operation returns.                                                      *)
Return(c) ==
    /\ limiter.at[c].pc = "sent"
    /\ \E exchange \in Exchanges :
         limiter' = [limiter EXCEPT !.at[c].pc = "idle",
                                    !.at[c].exchange = exchange,
                                    !.at[c].err = Finished(exchange)]
    /\ UNCHANGED <<now, session, valid, cmdVars, fetchVars, opVars,
                 storeVars>>

InitLimiter ==
    /\ now = 1
    /\ session = Nil
    /\ valid = [called |-> FALSE, result |-> FALSE]
    /\ IdleCmd({RT(1)})
    /\ IdleFetch
    /\ limiter = NewLimiter(RateLimit)
    /\ call = NoCall
    /\ report = NoReport
    /\ disk = NoDisk
    /\ procs = NoProcs
    /\ device = NoDevice

NextLimiter ==
    \/ Elapse
    \/ \E c \in Callers : Invoke(c)
    \/ \E c \in Callers : Receive(c)
    \/ \E c \in Callers : Send(c)
    \/ \E c \in Callers : Return(c)

SpecLimiter == InitLimiter /\ [][NextLimiter]_vars

(* Time beyond the horizon of the model's clock: the ticker, unless        *)
(* stopped, goes on firing.                                                *)
ElapseBeyond ==
    /\ limiter.clock = MaxElapsed
    /\ limiter.running
    /\ limiter.buffered < TickerBuffer
    /\ limiter' = [limiter EXCEPT !.buffered = Ticked(@), !.fired = @ + 1]
    /\ UNCHANGED <<now, session, valid, cmdVars, fetchVars, opVars,
                 storeVars>>

(* Client.Close: rateLimiter.Stop() *)
CloseClient ==
    /\ limiter.running
    /\ limiter' = [limiter EXCEPT !.running = FALSE]
    /\ UNCHANGED <<now, session, valid, cmdVars, fetchVars, opVars,
                 storeVars>>

NextLimiterLive == NextLimiter \/ ElapseBeyond \/ CloseClient

(* Time passes, a caller blocked on the channel receives a tick that is    *)
(* there, and httpClient.Do returns: the client's Timeout is positive.     *)
SpecLimiterLive ==
    /\ InitLimiter
    /\ [][NextLimiterLive]_vars
    /\ WF_vars(Elapse)
    /\ WF_vars(ElapseBeyond)
    /\ \A c \in Callers : WF_vars(Receive(c))
    /\ \A c \in Callers : WF_vars(Send(c))
    /\ \A c \in Callers : WF_vars(Return(c))

----------------------------------------------------------------------------
(* A command from its start to its client.  The configuration's durations  *)
(* are texts of a number and a unit, held here in seconds once parsed.     *)
(* call.set tells whether `config set` would have taken the rate limit's   *)
(* text; the file can also be written by hand.                             *)

Durations == [n : (-1)..RateLimit, unit : {"s", "m"}]

ParseDuration(text) ==
    IF text.unit = "m" THEN text.n * 60 ELSE text.n

validateConfigValue(key, value) ==
    CASE key = "bend.timeout"    -> value.unit \in {"s", "m", "h"}
      [] key = "bend.rate_limit" -> value.unit \in {"s", "ms"}
      [] OTHER -> TRUE

validateConfiguration(config) ==
    IF config.BaseURL = "" THEN "bend.base_url is required"
    ELSE IF config.Timeout <= 0 THEN "bend.timeout must be positive"
    ELSE "no"

(* time.NewTicker panics unless its interval is positive *)
NewTickerPanics(d) == d <= 0

setupRootCommand ==
    /\ call = NoCall
    /\ \E url \in {"", "https://bend"}, timeout \in {0, 1},
          rate \in Durations :
         LET config == [BaseURL   |-> url,
                        Timeout   |-> timeout,
                        RateLimit |-> ParseDuration(rate)]
         IN  call' = [op     |-> "root",
                      config |-> config,
                      set    |-> validateConfigValue("bend.rate_limit", rate),
                      why    |-> validateConfiguration(config),
                      err    |-> validateConfiguration(config) # "no",
                      pc     |-> IF validateConfiguration(config) # "no"
                                 THEN "failed" ELSE "validated"]
    /\ UNCHANGED <<now, session, valid, cmdVars, fetchVars, limVars, report,
                 storeVars>>

(* NewClient in the command that setupRootCommand has let through *)
NewClientCall ==
    /\ call # NoCall
    /\ call.pc = "validated"
    /\ IF NewTickerPanics(call.config.RateLimit)
       THEN /\ call' = [call EXCEPT !.pc = "panicked"]
            /\ UNCHANGED limiter
       ELSE /\ call' = [call EXCEPT !.pc = "ready"]
            /\ limiter' = NewLimiter(call.config.RateLimit)
    /\ UNCHANGED <<now, session, valid, cmdVars, fetchVars, report,
                 storeVars>>

ClientReady == call # NoCall /\ call.pc = "ready"

InitClient ==
    /\ now = 1
    /\ session = Nil
    /\ valid = [called |-> FALSE, result |-> FALSE]
    /\ IdleCmd({RT(1)})
    /\ IdleFetch
    /\ IdleLimiter

NextClient ==
    \/ setupRootCommand
    \/ NewClientCall
    \/ ClientReady /\ Elapse
    \/ \E c \in Callers :
         ClientReady /\ (Invoke(c) \/ Receive(c) \/ Send(c) \/ Return(c))

SpecClient == InitClient /\ [][NextClient]_vars

----------------------------------------------------------------------------
(* The session file on disk.  Its bytes are a sequence of tokens: what     *)
(* json.MarshalIndent writes for a session is "{", one member per field    *)
(* in the order of the struct, "}"; for a nil session it is "null".        *)

Mark(m) == [key |-> m, value |-> <<>>]

Marks == {"{", "}", "null", "tail"}

SessionFields == <<"AccessToken", "RefreshToken", "ExpiresAt", "TokenType",
                   "MarbleCookie", "DeviceHash">>

(* The json tag of a field of Session. *)
JsonKey(field) ==
    CASE field = "AccessToken"  -> "access_token"
      [] field = "RefreshToken" -> "refresh_token"
      [] field = "ExpiresAt"    -> "expires_at"
      [] field = "TokenType"    -> "token_type"
      [] field = "MarbleCookie" -> "marble_cookie"
      [] field = "DeviceHash"   -> "device_hash"

(* A string is written as a JSON string, a time.Time as a JSON string in   *)
(* RFC 3339 format with nanoseconds.                                       *)
EncodeValue(field, v) ==
    IF field = "ExpiresAt" THEN <<"rfc3339", v>> ELSE <<"string", v>>

DecodeValue(field, e) ==
    IF field = "ExpiresAt"
    THEN [err |-> e[1] # "rfc3339", value |-> e[2]]
    ELSE [err |-> e[1] # "string",  value |-> e[2]]

MarshalIndent_dropsCookie(s) ==
    IF s = Nil THEN <<Mark("null")>>
    ELSE <<Mark("{")>>
         \o [i \in 1..Len(SessionFields) |->
               [key   |-> JsonKey(SessionFields[i]),
                value |-> EncodeValue(SessionFields[i],
                            IF SessionFields[i] = "MarbleCookie" THEN NoCookie
                            ELSE s[SessionFields[i]])]]
         \o <<Mark("}")>>

MarshalIndent(s) ==
    IF s = Nil THEN <<Mark("null")>>
    ELSE <<Mark("{")>>
         \o [i \in 1..Len(SessionFields) |->
               [key   |-> JsonKey(SessionFields[i]),
                value |-> EncodeValue(SessionFields[i], s[SessionFields[i]])]]
         \o <<Mark("}")>>

(* var session Session *)
ZeroSession ==
    [AccessToken |-> Empty, RefreshToken |-> Empty, ExpiresAt |-> ZeroTime,
     TokenType |-> "", MarbleCookie |-> NoCookie, DeviceHash |-> ""]

(* The members of a document, when the bytes are one JSON object. *)
IsObject(data) ==
    /\ Len(data) >= 2
    /\ data[1].key = "{" /\ data[Len(data)].key = "}"
    /\ \A i \in 2..(Len(data) - 1) : data[i].key \notin Marks

(* json.Unmarshal into a zero Session: null leaves it as it is, an object  *)
(* sets the field whose tag is the member's key, anything else fails.      *)
RECURSIVE SetMembers(_, _)
SetMembers(target, members) ==
    IF members = <<>> THEN [err |-> FALSE, session |-> target]
    ELSE LET mem   == Head(members)
             named == { i \in 1..Len(SessionFields) :
                          JsonKey(SessionFields[i]) = mem.key }
         IN  IF named = {} THEN SetMembers(target, Tail(members))
             ELSE LET f == SessionFields[CHOOSE i \in named : TRUE]
                      d == DecodeValue(f, mem.value)
                  IN  IF d.err THEN [err |-> TRUE, session |-> target]
                      ELSE SetMembers([target EXCEPT ![f] = d.value],
                                      Tail(members))

Unmarshal(data) ==
    IF Len(data) = 1 /\ data[1].key = "null" THEN [err |-> FALSE, session |-> ZeroSession]
    ELSE IF ~IsObject(data) THEN [err |-> TRUE, session |-> ZeroSession]
    ELSE SetMembers(ZeroSession, SubSeq(data, 2, Len(data) - 1))

(* What LoadSession makes of the file: absent, not a session, or the       *)
(* session decoded from it.                                                *)
ReadFile(file) ==
    IF ~file.exists THEN NoFile
    ELSE IF Unmarshal(file.bytes).err THEN Corrupt
    ELSE Unmarshal(file.bytes).session

(* os.WriteFile opens the file with O_TRUNC and then writes the data from  *)
(* offset 0.  Opened(file) is the file once it is open; Written(file,      *)
(* data) are the contents the write can leave: the data, a part of it      *)
(* when the write fails, or, when another writer has put bytes into the    *)
(* file since it was opened, the data followed by what is left of those.   *)
Opened_keepsContent(file) == [exists |-> TRUE, bytes |-> file.bytes]

Opened(file) == [exists |-> TRUE, bytes |-> <<>>]

Written(file, data) ==
    { [err |-> FALSE, bytes |-> data] }
    \cup { [err |-> TRUE, bytes |-> SubSeq(data, 1, k)] : k \in 0..(Len(data) - 1) }
    \cup IF file.bytes = <<>> THEN {}
         ELSE { [err |-> FALSE, bytes |-> data \o <<Mark("tail")>>] }

Procs == {"P1", "P2"}

NewProc == [pc |-> "start", session |-> Nil, err |-> FALSE, saved |-> Nil]

StoreRest ==
    UNCHANGED <<now, session, valid, sessionFile, cfgFile, cfg, cmd, pc, ret,
                client, otp, result, wire, reply, hist, tickers, fetchVars,
                limVars, opVars, device>>

(* sessionManager.LoadSession() at the start of a command *)
StoreLoad(p) ==
    /\ procs[p].pc = "start"
    /\ LET r == LoadSession(ReadFile(disk))
       IN  procs' = [procs EXCEPT ![p] =
                       IF r.err THEN [@ EXCEPT !.pc = "done", !.err = TRUE]
                       ELSE [@ EXCEPT !.pc = "loaded", !.session = r.session]]
    /\ UNCHANGED <<disk, srv, info>>
    /\ StoreRest

(* client.RefreshSession() *)
StoreRefresh(p) ==
    /\ procs[p].pc = "loaded"
    /\ \E resp \in ServerRefresh(procs[p].session) :
         LET r == RefreshSession(NewClient([DeviceHash |-> "d1"]),
                                 procs[p].session, resp)
         IN  /\ procs' = [procs EXCEPT ![p] =
                            [@ EXCEPT !.pc = IF r.err THEN "done" ELSE "refreshed",
                                      !.err = r.err,
                                      !.session = r.session]]
             /\ srv' = ServerAfter(r.req, resp)
    /\ UNCHANGED <<disk, info>>
    /\ StoreRest

(* SaveSession up to the opening of the file: MkdirAll, MarshalIndent and  *)
(* the open can fail, and then the file is as it was.                      *)
StoreOpen(p) ==
    /\ procs[p].pc = "refreshed"
    /\ \E ok \in BOOLEAN :
         IF ok
         THEN /\ disk' = Opened(disk)
              /\ procs' = [procs EXCEPT ![p].pc = "writing"]
         ELSE /\ disk' = disk
              /\ procs' = [procs EXCEPT ![p].pc = "done", ![p].err = TRUE]
    /\ UNCHANGED <<srv, info>>
    /\ StoreRest

(* SaveSession from the write on *)
StoreWrite(p) ==
    /\ procs[p].pc = "writing"
    /\ \E w \in Written(disk, MarshalIndent(procs[p].session)) :
         /\ disk' = [exists |-> TRUE, bytes |-> w.bytes]
         /\ procs' = [procs EXCEPT ![p] =
                        [@ EXCEPT !.pc = "done", !.err = w.err,
                                  !.saved = IF w.err THEN Nil
                                             ELSE procs[p].session]]
    /\ UNCHANGED <<srv, info>>
    /\ StoreRest

(* sessionManager.GetSessionInfo() by some reader of the file *)
StoreDescribe ==
    /\ info' = GetSessionInfo(ReadFile(disk), now)
    /\ info' # info
    /\ UNCHANGED <<disk, procs, srv>>
    /\ StoreRest

InitStore ==
    /\ now = 1
    /\ session = Nil
    /\ valid = [called |-> FALSE, result |-> FALSE]
    /\ IdleCmd({RT(1)})
    /\ IdleFetch
    /\ limiter = NoLimiter
    /\ call = NoCall
    /\ report = NoReport
    /\ disk \in {NoDisk} \cup { [exists |-> TRUE, bytes |-> MarshalIndent(s)] :
                               s \in OpSessions \ {Nil} }
    /\ procs = [p \in Procs |-> NewProc]
    /\ device = NoDevice

NextStore ==
    \/ \E p \in Procs : StoreLoad(p)
    \/ \E p \in Procs : StoreRefresh(p)
    \/ \E p \in Procs : StoreOpen(p)
    \/ \E p \in Procs : StoreWrite(p)
    \/ StoreDescribe

SpecStore == InitStore /\ [][NextStore]_vars

----------------------------------------------------------------------------
(* buildTransactionQueryParams as a function of the filters, and the       *)
(* endpoint FetchTransactionsWithFilters makes of its result.              *)

FilterInputs ==
    [Limit : {-1, 0, 1}, After : {Empty, Cursor(1)},
     CountBy : {"", "month"}, TimeFilter : {"", "this_month"},
     Include : {"", "count_by_totals"},
     SortBy : {"", "txn_timestamp"}, SortOrder : {"", "DESC"},
     StartDate : {ZeroTime, 1}, EndDate : {ZeroTime, 2},
     AccountID : {"", "a1"}, CategoryID : {"", "g1"},
     SubcategoryID : {"", "s1"},
     IncludeCountBy : BOOLEAN, IncludeDetailed : BOOLEAN,
     OrCategory : BOOLEAN]

BuildQuery ==
    /\ call = NoCall
    /\ \E filters \in FilterInputs :
         call' = [op       |-> "buildTransactionQueryParams",
                  filters  |-> filters,
                  query    |-> buildTransactionQueryParams(filters),
                  hasQuery |-> HasQueryString(
                                 buildTransactionQueryParams(filters))]
    /\ UNCHANGED <<now, session, valid, cmdVars, fetchVars, limVars, report,
                   storeVars>>

InitQuery ==
    /\ now = 1
    /\ session = Nil
    /\ valid = [called |-> FALSE, result |-> FALSE]
    /\ IdleCmd({RT(1)})
    /\ IdleFetch
    /\ IdleLimiter

NextQuery == BuildQuery

SpecQuery == InitQuery /\ [][NextQuery]_vars

----------------------------------------------------------------------------
(* The device identity: the device_hash file of the configuration          *)
(* directory, read or created by GetOrCreateDeviceHash (internal/blend)    *)
(* and by getOrCreateDeviceHash under ensureDeviceHash (internal/config).  *)

(* An identifier is a string: the n-th random UUID, the fallback UUID made *)
(* of host and user names when rand.Read fails (n = 0), a non-empty proper *)
(* prefix of one of them, a value of the configuration file, or "".        *)
Hash(n) == [kind |-> "uuid", n |-> n]

Prefix(h) == [kind |-> "part", n |-> h.n]

ConfiguredHash == [kind |-> "config", n |-> 0]

GenerateDeviceHash(made, randOk) == IF randOk THEN Hash(made + 1) ELSE Hash(0)

generateDeviceHash(made, randOk) == GenerateDeviceHash(made, randOk)

(* What os.ReadFile and the length test find *)
Found(file, readOk) ==
    IF ~file.exists THEN "absent"
    ELSE IF ~readOk THEN "unreadable"
    ELSE IF file.data = EmptyString THEN "empty"
    ELSE "ok"

(* How the creation ends: os.MkdirAll fails, os.WriteFile fails to open    *)
(* the file, fails after truncating it, fails after writing a part of the  *)
(* hash, or succeeds.                                                      *)
WriteOutcomes == {"mkdir", "open", "empty", "short", "ok"}

HashFileAfter(file, hash, outcome) ==
    CASE outcome \in {"mkdir", "open"} -> file
      [] outcome = "empty" -> [exists |-> TRUE, data |-> EmptyString]
      [] outcome = "short" -> [exists |-> TRUE, data |-> Prefix(hash)]
      [] outcome = "ok"    -> [exists |-> TRUE, data |-> hash]

getOrCreateDeviceHash_ignoresFile(file, made, readOk, randOk, outcome) ==
    LET deviceHash == generateDeviceHash(made, randOk)
    IN  [hash  |-> deviceHash,
         err   |-> outcome # "ok",
         file  |-> HashFileAfter(file, deviceHash, outcome),
         made  |-> made + 1,
         found |-> Found(file, readOk)]

getOrCreateDeviceHash(file, made, readOk, randOk, outcome) ==
    IF Found(file, readOk) = "ok"
    THEN [hash |-> file.data, err |-> FALSE, file |-> file, made |-> made,
          found |-> "ok"]
    ELSE LET deviceHash == generateDeviceHash(made, randOk)
         IN  [hash  |-> deviceHash,
              err   |-> outcome # "ok",
              file  |-> HashFileAfter(file, deviceHash, outcome),
              made  |-> made + 1,
              found |-> Found(file, readOk)]

GetOrCreateDeviceHash(file, made, readOk, randOk, outcome) ==
    getOrCreateDeviceHash(file, made, readOk, randOk, outcome)

(* ensureDeviceHash: the hash the configuration ends with *)
ensureDeviceHash(configured, dirOk, file, made, readOk, randOk, outcome) ==
    IF configured # EmptyString
    THEN [hash |-> configured, err |-> FALSE, file |-> file, made |-> made,
          found |-> "configured"]
    ELSE IF ~dirOk
    THEN [hash |-> generateDeviceHash(made, randOk), err |-> TRUE,
          file |-> file, made |-> made + 1, found |-> "nodir"]
    ELSE LET r == getOrCreateDeviceHash(file, made, readOk, randOk, outcome)
         IN  IF r.err
             THEN [r EXCEPT !.hash = generateDeviceHash(r.made, randOk),
                            !.made = r.made + 1]
             ELSE r

Called(by, r) ==
    [by |-> by, found |-> r.found, hash |-> r.hash, err |-> r.err,
     before |-> device.file, after |-> r.file]

DeviceRest ==
    UNCHANGED <<now, session, valid, cmdVars, fetchVars, limVars, opVars,
                disk, procs>>

(* A caller of blend.GetOrCreateDeviceHash: it is handed the hash and the  *)
(* error.                                                                  *)
DeviceGetOrCreate ==
    /\ Len(device.calls) < MaxCalls
    /\ \E readOk \in BOOLEAN, randOk \in BOOLEAN, outcome \in WriteOutcomes :
         LET r == GetOrCreateDeviceHash(device.file, device.made, readOk,
                                        randOk, outcome)
         IN  device' = [file  |-> r.file, made |-> r.made,
                        calls |-> Append(device.calls,
                                         Called("GetOrCreateDeviceHash", r))]
    /\ DeviceRest

(* config.Load of a run: ensureDeviceHash fills config.Bend.DeviceHash     *)
DeviceEnsure ==
    /\ Len(device.calls) < MaxCalls
    /\ \E configured \in {EmptyString, ConfiguredHash}, dirOk \in BOOLEAN,
          readOk \in BOOLEAN, randOk \in BOOLEAN, outcome \in WriteOutcomes :
         LET r == ensureDeviceHash(configured, dirOk, device.file, device.made,
                                   readOk, randOk, outcome)
         IN  device' = [file  |-> r.file, made |-> r.made,
                        calls |-> Append(device.calls,
                                         Called("ensureDeviceHash", r))]
    /\ DeviceRest

InitDevice ==
    /\ now = 1
    /\ session = Nil
    /\ valid = [called |-> FALSE, result |-> FALSE]
    /\ IdleCmd({RT(1)})
    /\ IdleFetch
    /\ IdleLimiter

NextDevice == DeviceGetOrCreate \/ DeviceEnsure

SpecDevice == InitDevice /\ [][NextDevice]_vars

----------------------------------------------------------------------------
(* bend transactions from parseDateRange on: the date range computed from  *)
(* --from, --to and --days, the filters prepared from the flags, and the   *)
(* request that handleAdvancedTransactions or handleBasicTransactions      *)
(* issues.  Instants are counted in half days.                             *)

NoDate == [format |-> "none", t |-> 0]

Midnight(day) == day + day

DateArgs ==
    {NoDate, [format |-> "date", t |-> 10], [format |-> "rfc3339", t |-> 21],
     [format |-> "bad", t |-> 0]}

(* parseDate: RFC3339, then its variant with a literal Z, then YYYY-MM-DD  *)
parseDate(arg) ==
    CASE arg.format = "rfc3339" -> [err |-> FALSE, t |-> arg.t]
      [] arg.format = "date"    -> [err |-> FALSE, t |-> Midnight(arg.t)]
      [] OTHER                  -> [err |-> TRUE, t |-> ZeroTime]

AddDate(t, days) == t + Midnight(days)

NoRange == [err |-> TRUE, from |-> ZeroTime, to |-> ZeroTime]

parseDateRange(fromDate, toDate, days, clock) ==
    IF fromDate # NoDate /\ toDate # NoDate
    THEN IF parseDate(fromDate).err \/ parseDate(toDate).err THEN NoRange
         ELSE IF parseDate(fromDate).t > parseDate(toDate).t THEN NoRange
         ELSE [err |-> FALSE, from |-> parseDate(fromDate).t,
               to |-> parseDate(toDate).t]
    ELSE IF fromDate # NoDate
    THEN IF parseDate(fromDate).err THEN NoRange
         ELSE [err |-> FALSE, from |-> parseDate(fromDate).t, to |-> clock]
    ELSE IF toDate # NoDate
    THEN IF parseDate(toDate).err THEN NoRange
         ELSE [err |-> FALSE, from |-> AddDate(parseDate(toDate).t, -days),
               to |-> parseDate(toDate).t]
    ELSE [err |-> FALSE, from |-> AddDate(clock, -days), to |-> clock]

(* The flags of the command other than the dates *)
Flags ==
    [countBy : {""}, timeFilter : {"", "this_month"},
     sortBy : {"txn_timestamp", "amount"}, sortOrder : {"DESC", "ASC"},
     accountID : {"", "a1"}, categoryID : {"", "g1"},
     subcategoryID : {"", "s1"}, includeTotals : {FALSE},
     includeDetailed : BOOLEAN, orCategory : BOOLEAN]

prepareTransactionFilters(from, to, flags) ==
    [NoFilters EXCEPT !.Limit = BasicPageSize,
                      !.CountBy = flags.countBy,
                      !.TimeFilter = flags.timeFilter,
                      !.SortBy = flags.sortBy,
                      !.SortOrder = flags.sortOrder,
                      !.StartDate = from,
                      !.EndDate = to,
                      !.AccountID = flags.accountID,
                      !.CategoryID = flags.categoryID,
                      !.SubcategoryID = flags.subcategoryID,
                      !.IncludeCountBy = flags.includeTotals,
                      !.IncludeDetailed = flags.includeDetailed,
                      !.OrCategory = flags.orCategory]

hasAdvancedFilteringOptions(flags) ==
    \/ flags.timeFilter # "" \/ flags.accountID # ""
    \/ flags.categoryID # "" \/ flags.subcategoryID # ""
    \/ flags.sortBy # "txn_timestamp" \/ flags.sortOrder # "DESC"
    \/ flags.includeDetailed \/ flags.orCategory

handleAdvancedTransactions(c, s, filters, resp) ==
    FetchTransactionsWithFilters(c, s, filters, resp)

handleBasicTransactions(c, s, filters, resp) ==
    IF filters.AccountID # ""
    THEN FetchTransactionsWithFilters(c, s, filters, resp)
    ELSE FetchTransactions(c, s, BasicPageSize, Empty, resp)

WindowSession ==
    [AccessToken |-> AT(1), RefreshToken |-> RT(1), ExpiresAt |-> MaxExpiry,
     TokenType |-> "Bearer", MarbleCookie |-> "c0", DeviceHash |-> "d1"]

(* What the service answers: no transaction and total 0, no transaction   *)
(* on this page of a longer list, or one transaction.                      *)
WindowPages ==
    {Page(0, 0, FALSE, Empty, 0), Page(0, 0, TRUE, Empty, 2),
     Page(0, 1, TRUE, Empty, 1)}

WindowResponses ==
    { r \in TransactionResponses(WindowPages) : r.cookies = <<>> }

(* What both handlers do with the result of the fetch: return its error,   *)
(* return nil on an empty list, or else save the file.                     *)
saveFetched_writesEmpty(res, saveOk) ==
    [err   |-> res.err \/ ~saveOk,
     wrote |-> ~res.err]

saveFetched(res, saveOk) ==
    IF res.err THEN [err |-> TRUE, wrote |-> FALSE]
    ELSE IF Len(res.data.Transactions) = 0
    THEN [err |-> FALSE, wrote |-> FALSE]
    ELSE [err |-> ~saveOk, wrote |-> TRUE]

NoQuery == [k \in QueryKeys |-> <<>>]

(* runTransactions from parseDateRange on, on a client that has a valid    *)
(* session and is given the user id.                                       *)
runTransactions ==
    /\ call = NoCall
    /\ \E fromDate \in DateArgs, toDate \in DateArgs, days \in {7, 30},
          flags \in Flags, resp \in WindowResponses,
          stagingOk \in BOOLEAN, saveOk \in BOOLEAN :
         LET range   == parseDateRange(fromDate, toDate, days, now)
             filters == prepareTransactionFilters(range.from, range.to, flags)
             c       == NewClient([DeviceHash |-> "d1"])
             res     == IF hasAdvancedFilteringOptions(flags)
                        THEN handleAdvancedTransactions(c, WindowSession,
                                                        filters, resp)
                        ELSE handleBasicTransactions(c, WindowSession,
                                                     filters, resp)
             sent    == ~range.err /\ stagingOk
             end     == saveFetched(res, saveOk)
         IN  call' = [op       |-> "runTransactions",
                      fromDate |-> fromDate,
                      toDate   |-> toDate,
                      days     |-> days,
                      flags    |-> flags,
                      range    |-> range,
                      sent     |-> sent,
                      query    |-> IF sent THEN res.req.body ELSE NoQuery,
                      resp     |-> IF sent THEN resp.kind ELSE "none",
                      served   |-> IF sent THEN resp.data ELSE NoPage,
                      fetched  |-> IF sent THEN res.data ELSE NoPage,
                      fetchErr |-> sent /\ res.err,
                      wrote    |-> sent /\ end.wrote,
                      err      |-> ~sent \/ end.err]
    /\ UNCHANGED <<now, session, valid, cmdVars, fetchVars, limVars, report,
                   storeVars>>

InitWindow ==
    /\ now = Midnight(50) + 1
    /\ session = Nil
    /\ valid = [called |-> FALSE, result |-> FALSE]
    /\ IdleCmd({RT(1)})
    /\ IdleFetch
    /\ IdleLimiter

NextWindow == runTransactions

SpecWindow == InitWindow /\ [][NextWindow]_vars

----------------------------------------------------------------------------
(* C1 as stated: IsSessionValid(S) holds iff S is non-nil, has an access   *)
(* token, and now + 5 minutes is strictly earlier than S.ExpiresAt.        *)
C1_StrictlyEarlier ==
    valid.called =>
        (valid.result <=> (/\ session # Nil
                    /\ session.AccessToken # Empty
                    /\ now + Buffer < session.ExpiresAt))

(* C1 amended: IsSessionValid(S) holds iff S is non-nil, has an access     *)
(* token, and now + 5 minutes is not later than S.ExpiresAt; a session     *)
(* whose expiry is exactly now + 5 minutes is still valid.                 *)
C1_NotLater ==
    valid.called =>
        (valid.result <=> (/\ session # Nil
                    /\ session.AccessToken # Empty
                    /\ now + Buffer <= session.ExpiresAt))

C1_Witness ==
    /\ valid.called
    /\ valid.result
    /\ session # Nil
    /\ session.ExpiresAt = now + Buffer

----------------------------------------------------------------------------
(* Positions at which a command calls RefreshSession, SaveSession, or one  *)
(* of the read operations (CheckSession, GetUserID, GetAccounts,           *)
(* FetchTransactionsWithFilters).                                          *)

RefreshPcs == {"rt_refresh", "rs_refresh", "ac_refresh", "acc_refresh", "tx_refresh"}

SavePcs == {"rt_save", "rs_save", "ac_save", "acc_save", "tx_save"}

ReadPcs == {"login_check", "rt_check", "ck_api", "rs_check", "ac_check",
            "acc_fetch", "tx_user", "tx_fetch"}

OtpPcs == {"otp_request", "otp_read", "otp_verify"}

SameTokens(s, data) ==
    /\ s.AccessToken = data.AccessToken
    /\ s.RefreshToken = data.RefreshToken

(* C2: every refresh request carries the refresh token the service issued  *)
(* last; the client never presents a token that an earlier successful      *)
(* refresh rotated out.                                                    *)
C2_PresentsLatestToken ==
    wire.kind = "refresh" => wire.body = hist.current

(* C3: the device identity and the request identifier of an OTP flow are   *)
(* fixed before RequestOTP is sent, and VerifyOTP goes out with exactly    *)
(* the values that went out with RequestOTP.                               *)
C3_VerifyMatchesRequest ==
    /\ wire.kind = "otp_request" =>
          /\ wire.device = otp.deviceHash
          /\ wire.body = otp.requestID
    /\ wire.kind = "otp_verify" =>
          /\ wire.device = otp.sent.device
          /\ wire.body = otp.sent.requestID
          /\ wire.device = otp.deviceHash
          /\ wire.body = otp.requestID

C3_Witness ==
    /\ wire.kind = "otp_verify"
    /\ reply.kind = "ok"
    /\ otp.sent.device \in TransientHashes
    /\ otp.sent.requestID \in RequestIDs

(* C4: whenever the OTP flow is left after the transient device identity   *)
(* was installed, by any failure or by a successful verification, the      *)
(* client's device identity is again the one it had before the flow.       *)
C4_IdentityRestored ==
    [][(pc \in OtpPcs /\ pc' \notin OtpPcs) =>
          /\ client'.deviceHash = otp.original
          /\ client'.deviceHash = cfg.DeviceHash
          /\ client.deviceHash = otp.deviceHash]_vars

C4_Witness ==
    /\ cmd = "login" /\ pc = "idle" /\ result = "err"
    /\ wire.kind = "otp_verify"
    /\ wire.device = otp.deviceHash
    /\ client.deviceHash = otp.original
    /\ otp.original # otp.deviceHash

----------------------------------------------------------------------------
(* The transactions and the counts of the first k recorded pages, in       *)
(* request order; a page at which the loop stops; occurrences of a         *)
(* transaction in a list.                                                  *)

RECURSIVE FetchedTransactions(_)
FetchedTransactions(k) ==
    IF k = 0 THEN <<>>
    ELSE FetchedTransactions(k - 1) \o pages[k].data.Transactions

RECURSIVE FetchedCounts(_)
FetchedCounts(k) ==
    IF k = 0 THEN <<>>
    ELSE FetchedCounts(k - 1) \o pages[k].data.Counts

Stops(p, limit) ==
    p.data.After = Empty \/ Len(p.data.Transactions) < limit

Occurrences(t, list) == Cardinality({i \in 1..Len(list) : list[i] = t})

(* C9: FetchAllTransactions(userID, N) sends its first request with no     *)
(* cursor and every later one with the cursor of the page fetched just     *)
(* before; it goes on past a page only if that page has a cursor and holds *)
(* at least N transactions, stops after the first page that does not, and  *)
(* then returns the transactions and the counts of all fetched pages       *)
(* concatenated in request order.                                          *)
C9_CursorChain ==
    /\ \A i \in 1..Len(pages) :
         /\ QueryAfter(pages[i].query) =
              IF i = 1 THEN Empty ELSE pages[i - 1].data.After
         /\ QueryLimit(pages[i].query) = IF fa.limit > 0 THEN fa.limit ELSE 0
         /\ i < Len(pages) => ~pages[i].err /\ ~Stops(pages[i], fa.limit)
    /\ (fa.pc = "loop" /\ Len(pages) > 0) =>
          ~pages[Len(pages)].err /\ ~Stops(pages[Len(pages)], fa.limit)
    /\ (fa.pc = "done" /\ ~fa.err) =>
          /\ Len(pages) > 0
          /\ Stops(pages[Len(pages)], fa.limit)
          /\ fa.allTransactions = FetchedTransactions(Len(pages))
          /\ fa.allCounts = FetchedCounts(Len(pages))

C9_Witness ==
    /\ fa.pc = "done" /\ ~fa.err
    /\ Len(pages) = 3
    /\ QueryAfter(pages[2].query) = Cursor(2)
    /\ QueryAfter(pages[3].query) = Cursor(1)
    /\ pages[3].data.After # Empty
    /\ Len(pages[3].data.Transactions) < fa.limit
    /\ Len(fa.allTransactions) = 5
    /\ Len(fa.allCounts) = 1

C11_Terminates == (fa.pc = "loop") ~> (fa.pc = "done")

(* C12: when a page request of FetchAllTransactions fails, the call        *)
(* returns an error with no transactions and no counts, whatever the pages *)
(* fetched before it held; and a single page request yields a page only    *)
(* when it yields no error.                                                *)
C12_NoPartialData ==
    /\ \A i \in 1..Len(pages) :
         /\ pages[i].err => pages[i].data = NoPage
         /\ pages[i].err => (i = Len(pages) /\ fa.pc = "done" /\ fa.err)
    /\ fa.err => (fa.pc = "done" /\ fa.allTransactions = <<>>
                                 /\ fa.allCounts = <<>>)

C12_Witness ==
    /\ fa.pc = "done" /\ fa.err
    /\ Len(pages) = 3
    /\ Len(pages[1].data.Transactions) > 0
    /\ Len(pages[2].data.Counts) > 0
    /\ pages[3].err
    /\ fa.allTransactions = <<>> /\ fa.allCounts = <<>>

(* C15: when a command has finished, on any path, every client it built    *)
(* has been closed: none of the tickers it started is still running.       *)
C15_EveryClientClosed ==
    (pc = "idle" /\ cmd # "none") => tickers = 0

(* C13: any K requests of one client are spread over at least              *)
(* (K - 1) * RateLimit of time; two consecutive requests are never started *)
(* less than RateLimit apart.                                              *)
C13_SpreadOverIntervals ==
    \A i, j \in 1..Len(limiter.started) :
        i < j => limiter.started[j].at - limiter.started[i].at
                    >= (j - i) * RateLimit

(* C14: requests are started in the order in which their operations were   *)
(* invoked, also when the callers are concurrent.                          *)
C14_IssuedInCallOrder ==
    \A i, j \in 1..Len(limiter.started) :
        i < j => limiter.started[i].call < limiter.started[j].call

Non2xx(status) == status < 200 \/ status >= 300

(* The message a non-2xx response is to produce: the envelope's error      *)
(* field, or else the raw body, whole, truncated or as the placeholder.    *)
MessageBySource(r) ==
    IF r.body.json = "error" THEN r.msg.kind = "envelope"
    ELSE r.msg.kind \in {"body", "placeholder"}

(* C16 as stated: every response with a status outside 200..299 yields an  *)
(* error that carries the status code, with the envelope's error field as  *)
(* message when the body is an envelope with a non-null error and the raw  *)
(* body (truncated or replaced by the placeholder) otherwise.              *)
C16_EveryNon2xxCarriesStatus ==
    (report.called /\ Non2xx(report.status)) =>
        /\ report.err
        /\ report.msg.status = report.status
        /\ MessageBySource(report)

(* C16: every response with a status outside 200..299 yields an error;     *)
(* when its body could be read and decompressed, the error carries the     *)
(* status code, with the envelope's error field as message when the body   *)
(* is an envelope with a non-null error and the raw body (truncated or     *)
(* replaced by the placeholder) otherwise.                                 *)
C16_ReadableNon2xxCarriesStatus ==
    (report.called /\ Non2xx(report.status)) =>
        /\ report.err
        /\ report.readable =>
              /\ report.msg.status = report.status
              /\ MessageBySource(report)

C16_Witness ==
    /\ report.called /\ report.readable
    /\ report.status = 404
    /\ report.body.json = "error"
    /\ report.err
    /\ report.msg.status = 404
    /\ report.msg.kind = "envelope"

(* The first k characters of a body. *)
RECURSIVE TakeChars(_, _)
TakeChars(runs, k) ==
    IF runs = <<>> \/ k = 0 THEN <<>>
    ELSE IF Head(runs).n <= k
    THEN <<Head(runs)>> \o TakeChars(Tail(runs), k - Head(runs).n)
    ELSE <<[kind |-> Head(runs).kind, n |-> k]>>

Printable(runs) ==
    \A i \in 1..Len(runs) : runs[i].kind \in {"print", "wide"}

(* C19: for a non-2xx response whose body is printable text and no error   *)
(* envelope, the message is the whole body when it has at most 200         *)
(* characters, and its first 200 characters followed by "..." when it has  *)
(* more.                                                                   *)
C19_TruncatedAt200Characters ==
    (/\ report.called /\ report.readable /\ Non2xx(report.status)
     /\ Printable(report.body.runs)
     /\ report.body.json # "error") =>
        IF Chars(report.body.runs) <= TextLimit
        THEN report.msg.text = report.body.runs /\ ~report.msg.ellipsis
        ELSE /\ report.msg.text = TakeChars(report.body.runs, TextLimit)
             /\ report.msg.ellipsis

(* The bytes among the first k of a body that are not printable. *)
RECURSIVE NonPrintable(_, _)
NonPrintable(runs, k) ==
    IF runs = <<>> \/ k <= 0 THEN 0
    ELSE LET r == Head(runs)
             b == r.n * Width(r.kind)
         IN  (IF r.kind \in {"ctl", "bad"} THEN (IF b < k THEN b ELSE k) ELSE 0)
             + NonPrintable(Tail(runs), k - b)

(* C20: for a non-2xx response body of any length that is no error         *)
(* envelope, the message is the placeholder exactly when more than a tenth *)
(* of the body's first 1000 bytes are non-printable, whatever follows      *)
(* those bytes.                                                            *)
C20_PlaceholderByFirst1000Bytes ==
    (/\ report.called /\ report.readable /\ Non2xx(report.status)
     /\ report.body.json # "error") =>
        LET first == IF Bytes(report.body.runs) < ScanLimit
                     THEN Bytes(report.body.runs) ELSE ScanLimit
        IN  (report.msg.kind = "placeholder")
               <=> (NonPrintable(report.body.runs, ScanLimit) * TenthDivisor
                       > first)

Tokens(s) == <<s.AccessToken, s.RefreshToken, s.TokenType, s.ExpiresAt>>

(* C17: on a response with a status outside 200..299, the operation        *)
(* returns no decoded result and leaves the session as it was, stored      *)
(* cookie included, also when the response carries a marble-cookie.        *)
C17_OnlyOn2xx ==
    (call # NoCall /\ call.sent /\ call.resp.kind = "non2xx") =>
        /\ call.err
        /\ call.data = "nil"
        /\ call.after = call.before

C17_Witness ==
    /\ call # NoCall /\ call.sent
    /\ call.op = "GetAccounts"
    /\ call.resp = [kind |-> "non2xx", cookies |-> <<"c1">>]
    /\ call.before.MarbleCookie = "c0"
    /\ call.after.MarbleCookie = "c0"
    /\ call.data = "nil"

(* C18: a 2xx response whose envelope carries a non-null error makes       *)
(* CheckSession, RefreshSession, FetchTransactionsWithFilters and          *)
(* GetAccounts return an error and no payload, and RefreshSession leaves   *)
(* the session's tokens as they were.                                      *)
C18_EnvelopeErrorFails ==
    (call # NoCall /\ call.sent /\ call.resp.kind = "enverror") =>
        /\ call.err
        /\ call.data = "nil"
        /\ Tokens(call.after) = Tokens(call.before)

C18_Witness ==
    /\ call # NoCall /\ call.sent
    /\ call.op = "RefreshSession"
    /\ call.resp.kind = "enverror"
    /\ call.err
    /\ call.before.RefreshToken = RT(1)
    /\ Tokens(call.after) = Tokens(call.before)

(* C21: one call of CheckSession, RefreshSession,                          *)
(* FetchTransactionsWithFilters or GetAccounts issues at most one HTTP     *)
(* request, and a transport, API or decode failure of that request is      *)
(* returned to the caller as an error without another request.             *)
C21_AtMostOneRequest ==
    (call # NoCall /\ call.op \in OpNames) =>
        /\ call.attempts <= 1
        /\ (call.pc = "returned"
              /\ call.resp.kind \in {"transport", "non2xx", "undecodable",
                                     "enverror"}) =>
                 call.err /\ call.attempts = 1

C21_Witness ==
    /\ call # NoCall
    /\ call.op = "RefreshSession"
    /\ call.pc = "returned"
    /\ call.resp.kind = "transport"
    /\ call.err
    /\ call.attempts = 1

(* C22: once a refresh has failed in a run of check, accounts or           *)
(* transactions, the command goes on to no other authentication attempt:   *)
(* neither another refresh nor the OTP flow.                               *)
C22_NoSecondAttempt ==
    [][(/\ cmd \in {"check", "accounts", "transactions"}
        /\ hist.err
        /\ pc \notin RefreshPcs \cup {"idle"})
          => pc' \notin (RefreshPcs \cup OtpPcs)]_vars

C24_ExistsIffFilePresent ==
    [][info' # info =>
          /\ info'.Exists <=> disk.exists
          /\ ~info'.Exists => ~info'.Valid]_vars

(* C25: a reader of the session file sees a complete session at every      *)
(* point during and after SaveSession, also when the write fails part-way. *)
C25_NeverPartial ==
    disk.exists => ReadFile(disk) # Corrupt

SavedBoth ==
    \A p \in Procs : procs[p].pc = "done" /\ ~procs[p].err
                       /\ procs[p].saved # Nil

Times(values, v) == Cardinality({ i \in 1..Len(values) : values[i] = v })

(* The query has the key exactly when the field is set, once, with the     *)
(* value. *)
SentIffSet(query, key, set, value) ==
    query[key] = IF set THEN <<value>> ELSE <<>>

(* C27: the transaction query has a parameter for a filter field exactly   *)
(* when the field is non-empty, non-zero or true, once and with the        *)
(* field's value; a limit of zero or below and an empty cursor are not     *)
(* sent, and filters with nothing set give no query string.                *)
C27_ParametersIffSet ==
    (call # NoCall /\ call.op = "buildTransactionQueryParams") =>
      LET f == call.filters
          q == call.query
      IN  /\ SentIffSet(q, "limit", f.Limit >= 1, f.Limit)
          /\ SentIffSet(q, "after", f.After # Empty, f.After)
          /\ SentIffSet(q, "count_by", f.CountBy # "", f.CountBy)
          /\ SentIffSet(q, "time_filter", f.TimeFilter # "", f.TimeFilter)
          /\ SentIffSet(q, "sort_by", f.SortBy # "", f.SortBy)
          /\ SentIffSet(q, "sort_order", f.SortOrder # "", f.SortOrder)
          /\ SentIffSet(q, "start_date", f.StartDate # ZeroTime,
                        FormatRFC3339(f.StartDate))
          /\ SentIffSet(q, "end_date", f.EndDate # ZeroTime,
                        FormatRFC3339(f.EndDate))
          /\ SentIffSet(q, "category_id", f.CategoryID # "", f.CategoryID)
          /\ SentIffSet(q, "account_id[]", f.AccountID # "", f.AccountID)
          /\ SentIffSet(q, "subcategory_id", f.SubcategoryID # "",
                        f.SubcategoryID)
          /\ Len(q["include[]"])
               = (IF f.Include # "" THEN 1 ELSE 0)
                 + (IF f.IncludeCountBy THEN 1 ELSE 0)
                 + (IF f.IncludeDetailed THEN 1 ELSE 0)
          /\ f.Include # "" => Times(q["include[]"], f.Include) >= 1
          /\ f.IncludeCountBy => Times(q["include[]"], "count_by_totals") >= 1
          /\ f.IncludeDetailed =>
                Times(q["include[]"], "detailed_search_summary") = 1
          /\ (q["or[]"] # <<>>) <=> f.OrCategory
          /\ \A i, j \in 1..Len(q["or[]"]) :
                q["or[]"][i] = q["or[]"][j] => i = j
          /\ ([f EXCEPT !.Limit = 0] = NoFilters /\ f.Limit <= 0)
                => ~call.hasQuery

C27_Witness ==
    /\ call # NoCall /\ call.op = "buildTransactionQueryParams"
    /\ call.filters.Limit = -1
    /\ call.filters.After = Empty
    /\ call.filters.StartDate = 1
    /\ call.filters.OrCategory
    /\ call.query["limit"] = <<>>
    /\ call.query["after"] = <<>>
    /\ call.query["start_date"] = <<FormatRFC3339(1)>>
    /\ call.hasQuery

(* The Authorization header of a session: its token type, or Bearer when   *)
(* it has none, and its access token.                                      *)
Authorization(s) ==
    <<IF s.TokenType = "" THEN "Bearer" ELSE s.TokenType, s.AccessToken>>

(* The marble-cookie is sent exactly when the session stores one; no       *)
(* session, no header and no cookie.                                       *)
CookieIffStored(c) ==
    /\ c.before # Nil =>
          c.req.cookie = c.before.MarbleCookie
    /\ c.before = Nil => (c.req.auth = Empty /\ c.req.cookie = NoCookie)

(* C28 as stated: a request carries an Authorization header whenever a     *)
(* session is present, "<token type> <access token>" with Bearer for an    *)
(* empty token type, and the marble-cookie exactly when the session stores *)
(* one; with no session it carries neither.                                *)
C28_AuthorizationWheneverSession ==
    (call # NoCall /\ call.req # NoReq) =>
        /\ call.before # Nil =>
              (call.req.auth # Empty
                 /\ call.req.auth = Authorization(call.before))
        /\ CookieIffStored(call)

(* C28: a request carries an Authorization header exactly when a session   *)
(* is present and its access token is not empty; the value is "<token      *)
(* type> <access token>" with Bearer for an empty token type.  It carries  *)
(* the marble-cookie exactly when the session stores one; with no session  *)
(* it carries neither.                                                     *)
C28_AuthorizationIfAccessToken ==
    (call # NoCall /\ call.req # NoReq) =>
        /\ (call.before # Nil /\ call.before.AccessToken # Empty) =>
              call.req.auth = Authorization(call.before)
        /\ (call.before # Nil /\ call.before.AccessToken = Empty) =>
              call.req.auth = Empty
        /\ CookieIffStored(call)

C28_Witness ==
    /\ call # NoCall /\ call.req # NoReq
    /\ call.op = "GetAccounts"
    /\ call.before.TokenType = ""
    /\ call.before.AccessToken = AT(1)
    /\ call.before.MarbleCookie = "c0"
    /\ call.req.auth = <<"Bearer", AT(1)>>
    /\ call.req.cookie = "c0"


(* The calls that went to the device_hash file *)
FileCalls == { j \in 1..Len(device.calls) :
                 device.calls[j].found \notin {"configured", "nodir"} }

(* C29, as stated: after a first get-or-create that finds no readable      *)
(* identity file every later get-or-create returns the identifier of the   *)
(* first, and the identifier handed to the caller is the one in the file.  *)
C29_CreatedOnceThenReused ==
    \A j \in FileCalls :
        /\ device.calls[j].hash = device.calls[j].after.data
        /\ \A i \in FileCalls :
             (i < j /\ device.calls[i].found # "ok")
                => device.calls[j].hash = device.calls[i].hash

(* C29, amended: a get-or-create that reads a non-empty file returns its   *)
(* content and generates and writes nothing; one that returns no error     *)
(* hands over the identifier the file then holds; and the calls that       *)
(* follow a call without error, as long as each of them can read the       *)
(* file, return the identifier of that call.                               *)
C29_ReusedOnceWritten ==
    \A j \in FileCalls :
        LET c == device.calls[j]
        IN  /\ c.found = "ok" =>
                 c.hash = c.before.data /\ c.after = c.before /\ ~c.err
            /\ ~c.err => c.after.exists /\ c.hash = c.after.data
            /\ c.after # c.before =>
                 c.found \in {"absent", "unreadable", "empty"}
            /\ \A i \in FileCalls :
                 (/\ i < j
                  /\ ~device.calls[i].err
                  /\ \A k \in (i + 1)..j : device.calls[k].found = "ok")
                    => c.hash = device.calls[i].hash

C29_Witness ==
    /\ Len(device.calls) = 3
    /\ device.calls[1].found = "absent" /\ ~device.calls[1].err
    /\ device.calls[1].by = "ensureDeviceHash"
    /\ device.calls[1].hash = Hash(1)
    /\ device.calls[2].found = "ok" /\ device.calls[2].hash = Hash(1)
    /\ device.calls[3].found = "ok" /\ device.calls[3].hash = Hash(1)
    /\ device.calls[3].by = "GetOrCreateDeviceHash"
    /\ device.file.data = Hash(1)

(* C30: every invocation of the transactions command that issues its      *)
(* request carries start_date and end_date equal to the computed range.    *)
C30_RequestCarriesWindow ==
    (call # NoCall /\ call.op = "runTransactions" /\ call.sent) =>
        /\ call.query["start_date"] = <<FormatRFC3339(call.range.from)>>
        /\ call.query["end_date"] = <<FormatRFC3339(call.range.to)>>

(* C31: when the service reports no transaction the fetch returns an       *)
(* empty list with total 0 and no error, and the transactions command      *)
(* ends successfully without writing a file, on every path.                *)
C31_NoWriteOnZeroTransactions ==
    (/\ call # NoCall /\ call.op = "runTransactions" /\ call.sent
     /\ call.resp = "ok" /\ Len(call.served.Transactions) = 0)
       => /\ ~call.fetchErr
          /\ call.fetched.Transactions = <<>>
          /\ call.fetched.Total = call.served.Total
          /\ ~call.wrote
          /\ ~call.err

C31_Witness ==
    /\ call # NoCall /\ call.op = "runTransactions" /\ call.sent
    /\ call.resp = "ok"
    /\ call.served = Page(0, 0, FALSE, Empty, 0)
    /\ call.fetched.Total = 0
    /\ call.flags.accountID = "a1"
    /\ ~call.wrote /\ ~call.err

C33_CapacityOneStartsEmpty ==
    /\ [](/\ limiter.buffered <= 1
          /\ limiter.taken <= limiter.fired
          /\ limiter.taken > 0 => limiter.clock >= limiter.period
          /\ \A i \in 1..Len(limiter.started) :
               limiter.started[i].at >= limiter.period)
    /\ [][limiter'.taken > limiter.taken => limiter'.buffered = 0]_vars

C33_Witness ==
    /\ limiter.fired = 2
    /\ limiter.taken = 1
    /\ limiter.buffered = 0
    /\ Len(limiter.started) = 1
    /\ limiter.started[1].at >= 2 * limiter.period
    /\ \E c \in Callers : limiter.at[c].pc = "called"

(* C34: an operation's request is preceded by the receipt of exactly one   *)
(* tick, an operation whose check fails receives no tick and sends no      *)
(* request, and the requests sent never outnumber the ticks received.      *)
C34_OneTickPerRequest ==
    /\ [](/\ Len(limiter.started) <= limiter.taken
          /\ \A c \in Callers :
               /\ limiter.at[c].pc = "sent" => limiter.at[c].ticks = 1
               /\ limiter.at[c].rejected # "no" <=>
                    (limiter.at[c].call > 0 /\ ~limiter.at[c].sends)
               /\ limiter.at[c].rejected # "no" =>
                    /\ limiter.at[c].pc = "idle"
                    /\ limiter.at[c].ticks = 0
                    /\ limiter.at[c].exchange = "none"
                    /\ limiter.at[c].err)
    /\ [][/\ \A c \in Callers :
               (/\ limiter'.at[c].call # limiter.at[c].call
                /\ ~limiter'.at[c].sends)
                  => /\ limiter'.taken = limiter.taken
                     /\ limiter'.buffered = limiter.buffered
                     /\ limiter'.started = limiter.started
          /\ Len(limiter'.started) > Len(limiter.started) =>
               /\ Len(limiter'.started) = Len(limiter.started) + 1
               /\ limiter'.taken = limiter.taken
               /\ \E c \in Callers : /\ limiter.at[c].pc = "ticked"
                                     /\ limiter.at[c].ticks = 1
                                     /\ limiter'.at[c].pc = "sent"]_vars

C34_Witness ==
    /\ limiter.at["A"].rejected = "expired"
    /\ limiter.at["B"].pc = "sent"
    /\ limiter.taken = 1
    /\ Len(limiter.started) = 1
    /\ limiter.calls = 3

(* C35: every request sent while the client holds a session carries the    *)
(* device identity recorded in that session.                               *)
C35_DeviceHeaderIsSessionDevice ==
    (wire # NoReq /\ session # Nil) => wire.device = session.DeviceHash

C37_FreshRecordReplacesSession ==
    (call # NoCall /\ call.op = "InitializeFromRefreshToken") =>
        LET fresh == [AccessToken  |-> Empty,
                      RefreshToken |-> call.token,
                      ExpiresAt    |-> 0,
                      TokenType    |-> "Bearer",
                      MarbleCookie |-> "",
                      DeviceHash   |-> "d2"]
        IN  /\ call.sent =>
                call.req = [kind |-> "refresh", device |-> "d2",
                            auth |-> Empty, cookie |-> "",
                            body |-> call.token]
            /\ call.err =>
                /\ call.after \in
                     {fresh} \cup
                     { [fresh EXCEPT !.MarbleCookie = call.resp.cookies[1]] :
                         x \in { y \in {1} : /\ Is2xx(call.resp)
                                             /\ Len(call.resp.cookies) > 0 } }
                /\ ~IsSessionValid(call.after, now)
                /\ \A t \in 0..MaxClock : ~IsSessionValid(call.after, t)

C37_Witness ==
    /\ call # NoCall /\ call.op = "InitializeFromRefreshToken"
    /\ call.prev # Nil
    /\ IsSessionValid(call.prev, now)
    /\ call.prev.DeviceHash = "d1"
    /\ call.token = RT(1)
    /\ call.sent /\ call.err
    /\ call.after.AccessToken = Empty
    /\ call.after.DeviceHash = "d2"
    /\ call.after.ExpiresAt = 0
    /\ ~IsSessionValid(call.after, now)

(* C38: FetchAllTransactions called with a limit of zero or less sends no  *)
(* limit parameter with any of its requests and never stops because a page *)
(* is short: it goes on to the next request, with the cursor it was given, *)
(* after every page that carries a cursor, and stops, short of an error,   *)
(* exactly at the first page whose cursor is empty.                        *)
C38_UnlimitedStopsAtEmptyCursor ==
    (fa.pc # "idle" /\ fa.limit <= 0) =>
        /\ \A i \in 1..Len(pages) : pages[i].query["limit"] = <<>>
        /\ \A i \in 1..(Len(pages) - 1) :
              /\ ~pages[i].err
              /\ pages[i].data.After # Empty
              /\ pages[i + 1].query["after"] = <<pages[i].data.After>>
        /\ (fa.pc = "done" /\ ~fa.err) =>
              /\ Len(pages) > 0
              /\ pages[Len(pages)].data.After = Empty
        /\ (fa.pc = "loop" /\ Len(pages) > 0) =>
              /\ ~pages[Len(pages)].err
              /\ pages[Len(pages)].data.After # Empty
              /\ fa.after = pages[Len(pages)].data.After

C38_Witness ==
    /\ fa.pc = "done" /\ ~fa.err
    /\ fa.limit = -1
    /\ Len(pages) = 2
    /\ Len(pages[1].data.Transactions) = 1
    /\ Len(pages[1].data.Transactions) < DefaultPageSize
    /\ pages[1].data.After # Empty
    /\ pages[2].data.After = Empty
    /\ fa.allTransactions = <<1>>

(* C39: every configuration that validateConfiguration accepts, a rate     *)
(* limit of zero or less included, gives NewClient a client that can be    *)
(* used and whose limiter ticks.                                           *)
C39_AcceptedConfigurationTicks ==
    (call # NoCall /\ call.op = "root" /\ ~call.err /\ call.pc # "validated") =>
        /\ call.pc = "ready"
        /\ limiter # NoLimiter
        /\ limiter.running
        /\ limiter.period = call.config.RateLimit

============================================================================
